---- MODULE Spec2Model ----
(***************************************************************************)
(* The entry workflow of the TakeTwo dashboard: the Tend dialog's release  *)
(* gate and release form (TendDialog), the three list views with their     *)
(* edit dialogs (Pending, SubstantialCompletion, Completed), the Deleted   *)
(* view, the intake form (NewEntry) and the App's asynchronous handlers    *)
(* (addEntry, updateEntry, handleDeleteEntry, handleRestoreEntry,          *)
(* loadAllData) talking to the REST backend.                               *)
(*                                                                         *)
(* JavaScript values are encoded as follows.                               *)
(*   - a free-text string (a phone, an address, the text of a number       *)
(*     input) is a sequence of one-character strings, so that trim,        *)
(*     parseFloat and toString are computed and not assumed;               *)
(*   - an enumerated string ('yes', 'pickup', ...) is a TLA+ string, ''    *)
(*     being "";                                                           *)
(*   - an optional field is a sequence of length at most one: <<>> is      *)
(*     undefined and <<v>> is the value v;                                 *)
(*   - an object literal (an Entry, a Partial<Entry>) is a function from   *)
(*     its keys, so that a patch says which keys it carries.               *)
(* Of the plain customer/intake text fields of Entry only customerPhone    *)
(* and deliveryAddress are kept: customerName, customerEmail,              *)
(* itemDescription, shoeCondition, shoeService, assignedTo and the waiver  *)
(* fields are copied by exactly the same statements as customerPhone.      *)
(***************************************************************************)
EXTENDS Integers, Sequences, FiniteSets, TLC

----------------------------------------------------------------------------
(* Bounds of the model.                                                    *)

\* ids the backend hands out
MaxEntries == 1
\* requests issued over one behaviour
MaxRequests == 5
\* photos held in one photo list, reads in flight included
MaxPhotos == 1
\* requests in flight at once in SpecRace
MaxInFlight == 2
\* photos and reads in flight in SpecPhotos and SpecEditPhotos
MaxReads == 3

----------------------------------------------------------------------------
(* Strings.                                                                *)

DigitChars == <<"0", "1", "2", "3", "4", "5", "6", "7", "8", "9">>

IsDigit(c) == \E i \in 1..Len(DigitChars) : DigitChars[i] = c

DigitValue(c) == (CHOOSE i \in 1..Len(DigitChars) : DigitChars[i] = c) - 1

RECURSIVE trimStart(_)
trimStart(s) ==
    IF s = <<>> THEN s
    ELSE IF Head(s) = " " THEN trimStart(Tail(s)) ELSE s

RECURSIVE trimEnd(_)
trimEnd(s) ==
    IF s = <<>> THEN s
    ELSE IF s[Len(s)] = " " THEN trimEnd(SubSeq(s, 1, Len(s) - 1)) ELSE s

\* String.prototype.trim
trim(s) == trimEnd(trimStart(s))

RECURSIVE LeadingDigits(_)
LeadingDigits(s) ==
    IF s = <<>> THEN <<>>
    ELSE IF IsDigit(Head(s)) THEN <<Head(s)>> \o LeadingDigits(Tail(s)) ELSE <<>>

RECURSIVE DigitsValue(_)
DigitsValue(d) ==
    IF d = <<>> THEN 0
    ELSE 10 * DigitsValue(SubSeq(d, 1, Len(d) - 1)) + DigitValue(d[Len(d)])

\* parseFloat on the texts of a number input (unsigned integers): leading
\* white space is skipped, the longest numeric prefix is read, and a text
\* with no numeric prefix gives NaN, which is <<>> here.
parseFloat(s) ==
    LET d == LeadingDigits(trimStart(s))
    IN  IF d = <<>> THEN <<>> ELSE <<DigitsValue(d)>>

\* x || 0 for a number, NaN or undefined x
OrZero(x) == IF x = <<>> THEN 0 ELSE x[1]

RECURSIVE toString(_)
\* Number.prototype.toString for a natural number
toString(n) ==
    IF n < 10 THEN <<DigitChars[n + 1]>>
    ELSE toString(n \div 10) \o <<DigitChars[(n % 10) + 1]>>

----------------------------------------------------------------------------
(* The release gate of the Tend dialog.                                    *)

\* the state useState gives serviceDetails
InitialServiceDetails ==
    [isShoeClean |-> "", serviceType |-> "", needsReglue |-> FALSE,
     needsPaint |-> FALSE, qcPassed |-> FALSE, basicCleaning |-> "",
     receivedBy |-> ""]

\* every value the seven answers can take
AllServiceDetails ==
    [isShoeClean : {"", "yes", "no"},
     serviceType : {"", "restoration", "deep-cleaning"},
     needsReglue : BOOLEAN, needsPaint : BOOLEAN, qcPassed : BOOLEAN,
     basicCleaning : {"", "yes", "no"},
     receivedBy : {"", "taketwo", "gameville"}]

\* A JavaScript value that is a boolean or a string, as checkIfCanRelease
\* returns one (serviceType && qcPassed is '' when serviceType is '').
JsBool(b) == [type |-> "boolean", bool |-> b]
JsString(s) == [type |-> "string", str |-> s]

Truthy(v) == IF v.type = "boolean" THEN v.bool ELSE v.str # ""

\* a && b
JsAnd(a, b) == IF Truthy(a) THEN b ELSE a

\* The gate of the earlier TendDialog, which does not ask for receivedBy.
checkIfCanRelease_v1(sd) ==
    IF sd.isShoeClean = "yes" THEN JsBool(sd.qcPassed)
    ELSE IF sd.isShoeClean = "no"
         THEN IF sd.basicCleaning = "yes" THEN JsBool(sd.qcPassed)
              ELSE IF sd.basicCleaning = "no"
                   THEN JsAnd(JsString(sd.serviceType), JsBool(sd.qcPassed))
                   ELSE JsBool(FALSE)
         ELSE JsBool(FALSE)

\* A gate that takes qcPassed alone on the basicCleaning = 'no' path.
checkIfCanRelease_noType(sd) ==
    IF sd.receivedBy = "" THEN JsBool(FALSE)
    ELSE IF sd.isShoeClean = "" THEN JsBool(FALSE)
    ELSE IF sd.isShoeClean = "yes" THEN JsBool(sd.qcPassed)
    ELSE IF sd.isShoeClean = "no"
         THEN IF sd.basicCleaning \in {"yes", "no"} THEN JsBool(sd.qcPassed)
              ELSE JsBool(FALSE)
         ELSE JsBool(FALSE)

\* A gate that reads basicCleaning before isShoeClean, so that an answer
\* left over from an earlier 'no' still counts.
checkIfCanRelease_stale(sd) ==
    IF sd.receivedBy = "" THEN JsBool(FALSE)
    ELSE IF sd.isShoeClean = "" THEN JsBool(FALSE)
    ELSE IF sd.basicCleaning = "no"
         THEN JsAnd(JsString(sd.serviceType), JsBool(sd.qcPassed))
         ELSE IF sd.isShoeClean = "yes" \/ sd.basicCleaning = "yes"
              THEN JsBool(sd.qcPassed)
              ELSE JsBool(FALSE)

\* const checkIfCanRelease = () => {...}
checkIfCanRelease(sd) ==
    IF sd.receivedBy = "" THEN JsBool(FALSE)
    ELSE IF sd.isShoeClean = "" THEN JsBool(FALSE)
    ELSE IF sd.isShoeClean = "yes" THEN JsBool(sd.qcPassed)
    ELSE IF sd.isShoeClean = "no"
         THEN IF sd.basicCleaning = "yes" THEN JsBool(sd.qcPassed)
              ELSE IF sd.basicCleaning = "no"
                   THEN JsAnd(JsString(sd.serviceType), JsBool(sd.qcPassed))
                   ELSE JsBool(FALSE)
         ELSE JsBool(FALSE)

----------------------------------------------------------------------------
(* Entries and patches.                                                    *)

None == <<>>
Some(v) == <<v>>

\* the object literal {}
EmptyObject == [k \in {} |-> None]

\* {...a, ...b}
Spread(a, b) ==
    [k \in DOMAIN a \cup DOMAIN b |-> IF k \in DOMAIN b THEN b[k] ELSE a[k]]

\* const { k1, k2, ...rest } = o
Omit(o, keys) == [k \in DOMAIN o \ keys |-> o[k]]

\* the keys of Entry whose type admits undefined
OptionalKeys ==
    {"serviceDetails", "billing", "additionalBilling", "deliveryOption",
     "markedAs"}

\* JSON.stringify leaves out the keys whose value is undefined
JSONstringify(o) ==
    [k \in {x \in DOMAIN o : ~(x \in OptionalKeys /\ o[x] = None)} |-> o[k]]

\* prev.filter((_, i) => i !== index), index counted from 1
RemoveAt(s, index) ==
    [i \in 1..(Len(s) - 1) |-> IF i < index THEN s[i] ELSE s[i + 1]]

\* prev.filter(e => e.id !== id)
RECURSIVE FilterOutId(_, _)
FilterOutId(s, id) ==
    IF s = <<>> THEN <<>>
    ELSE IF Head(s).id = id THEN FilterOutId(Tail(s), id)
         ELSE <<Head(s)>> \o FilterOutId(Tail(s), id)

\* entries.filter(e => e.status === status)
RECURSIVE FilterStatus(_, _)
FilterStatus(s, status) ==
    IF s = <<>> THEN <<>>
    ELSE IF Head(s).status = status
         THEN <<Head(s)>> \o FilterStatus(Tail(s), status)
         ELSE FilterStatus(Tail(s), status)

Elements(s) == {s[i] : i \in 1..Len(s)}

\* prev.find(e => e.id === id) || null
Find(s, id) ==
    IF \E i \in 1..Len(s) : s[i].id = id
    THEN Some(s[CHOOSE i \in 1..Len(s) :
                    s[i].id = id /\ \A j \in 1..(i - 1) : s[j].id # id])
    ELSE None

\* const mapEntry = (e: EntryDTO): Entry => ({...})
mapEntry(e) ==
    [id |-> e.id,
     customerPhone |-> e.customerPhone,
     deliveryAddress |-> e.deliveryAddress,
     beforePhotos |-> e.beforePhotos,
     status |-> e.status,
     serviceDetails |-> e.serviceDetails,
     afterPhotos |-> e.afterPhotos,
     billing |-> e.billing,
     additionalBilling |-> e.additionalBilling,
     deliveryOption |-> e.deliveryOption,
     markedAs |-> e.markedAs,
     createdAt |-> e.createdAt,
     updatedAt |-> e.updatedAt]

\* data.map(mapEntry)
MapEntries(data) == [i \in 1..Len(data) |-> mapEntry(data[i])]

\* (entry.billing || 0) + (entry.additionalBilling || 0)
totalAmount(e) == OrZero(e.billing) + OrZero(e.additionalBilling)

\* Analytics.tsx: entries.reduce((sum, entry) =>
\*                    sum + (entry.billing || 0) + (entry.additionalBilling || 0), 0)
RECURSIVE Analytics_totalRevenue(_)
Analytics_totalRevenue(list) ==
    IF list = <<>> THEN 0
    ELSE OrZero(Head(list).billing) + OrZero(Head(list).additionalBilling)
            + Analytics_totalRevenue(Tail(list))

\* Report.tsx: filteredEntries.filter(e => e.billing)
\*                 .reduce((sum, entry) => sum + (entry.billing || 0), 0),
\* with the filters of the report at 'all'
RECURSIVE Report_totalRevenue(_)
Report_totalRevenue(list) ==
    IF list = <<>> THEN 0
    ELSE (IF OrZero(Head(list).billing) # 0
          THEN OrZero(Head(list).billing) ELSE 0)
            + Report_totalRevenue(Tail(list))

----------------------------------------------------------------------------
(* The REST backend behind api.ts: a store of entries, each active or      *)
(* soft-deleted, that stamps updatedAt on every mutation.                  *)

\* the entries of a store f (id -> entry) in id order
RECURSIVE ListFrom(_, _)
ListFrom(f, i) ==
    IF i > MaxEntries THEN <<>>
    ELSE IF i \in DOMAIN f THEN <<f[i]>> \o ListFrom(f, i + 1)
         ELSE ListFrom(f, i + 1)

BackendList(f) == ListFrom(f, 1)

\* POST /entries
BackendCreate(b, payload) ==
    LET defaults ==
            [serviceDetails |-> None, billing |-> None,
             additionalBilling |-> None, deliveryOption |-> None,
             markedAs |-> None]
        e == Spread(Spread(defaults, payload),
                    [id |-> b.nextId, createdAt |-> b.now + 1,
                     updatedAt |-> b.now + 1])
    IN  [b EXCEPT !.active = Spread(b.active, [i \in {b.nextId} |-> e]),
                  !.nextId = b.nextId + 1,
                  !.now = b.now + 1]

\* PATCH /entries/{id}
BackendUpdate(b, id, body) ==
    LET e == Spread(Spread(b.active[id], body), [updatedAt |-> b.now + 1])
    IN  [b EXCEPT !.active = Spread(b.active, [i \in {id} |-> e]),
                  !.now = b.now + 1]

\* DELETE /entries/{id}: a soft delete
BackendDelete(b, id) ==
    LET e == Spread(b.active[id], [updatedAt |-> b.now + 1])
    IN  [b EXCEPT !.active = [i \in DOMAIN b.active \ {id} |-> b.active[i]],
                  !.deleted = Spread(b.deleted, [i \in {id} |-> e]),
                  !.now = b.now + 1]

\* POST /entries/{id}/restore
BackendRestore(b, id) ==
    LET e == Spread(b.deleted[id], [updatedAt |-> b.now + 1])
    IN  [b EXCEPT !.deleted = [i \in DOMAIN b.deleted \ {id} |-> b.deleted[i]],
                  !.active = Spread(b.active, [i \in {id} |-> e]),
                  !.now = b.now + 1]

\* DELETE /entries/{id}/permanent
BackendPermanentDelete(b, id) ==
    [b EXCEPT !.deleted = [i \in DOMAIN b.deleted \ {id} |-> b.deleted[i]]]

----------------------------------------------------------------------------
(* State.                                                                  *)

VARIABLES
    entries,          \* App: useState<Entry[]>([])
    deletedEntries,   \* App: useState<Entry[]>([])
    isAuthenticated,  \* App: useState(() => !!localStorage.getItem('tt_token'))
    authToken,        \* api.ts: let authToken; TRUE when a token is set
    activeView,       \* App: useState<ViewType>('new-entry')
    newEntryState,    \* NewEntry: formData, selectedServices, totalAmount
    pendingState,     \* Pending: selectedEntry, dialogOpen, editOpen, editData
    tendState,        \* TendDialog, None while it is not mounted
    substantialState, \* SubstantialCompletion: selectedEntry, dialogOpen, editData
    completedState,   \* Completed: selectedEntry, dialogOpen, editData
    deletedState,     \* Deleted: selectedEntry, isRestoring, isDeleting, open alert
    reads,            \* FileReader reads that have not fired onload yet
    inflight,         \* requests whose handler has not resumed: rid -> request
    nextRid,          \* the number of requests issued so far, plus one
    backend,          \* the store behind the REST API
    inFlightRequests, \* api.ts: let inFlightRequests = 0
    isLoading,        \* App: useState(false)
    toast             \* what the last step handed to toast.success / toast.error

vars ==
    <<entries, deletedEntries, isAuthenticated, authToken, activeView,
      newEntryState, pendingState, tendState, substantialState,
      completedState, deletedState, reads, inflight, nextRid, backend,
      inFlightRequests, isLoading, toast>>

appVars == <<entries, deletedEntries, isAuthenticated, authToken, activeView>>
viewVars ==
    <<newEntryState, pendingState, tendState, substantialState,
      completedState, deletedState>>
netVars == <<inflight, nextRid, backend, inFlightRequests, isLoading>>
loadVars == <<inFlightRequests, isLoading>>

Views ==
    {"new-entry", "pending", "substantial-completion", "completed", "deleted"}

\* what useState gives each component when it mounts
NewEntryInitial ==
    [customerPhone |-> <<>>, deliveryAddress |-> <<>>, beforePhotos |-> <<>>,
     selectedServices |-> EmptyObject, totalAmount |-> 0]

PendingInitial ==
    [selectedEntry |-> None, dialogOpen |-> FALSE, editOpen |-> FALSE,
     editData |-> EmptyObject]

ListViewInitial ==
    [selectedEntry |-> None, dialogOpen |-> FALSE, editData |-> EmptyObject]

DeletedInitial ==
    [selectedEntry |-> None, isRestoring |-> FALSE, isDeleting |-> FALSE,
     alert |-> None]

TendInitial(entry) ==
    [serviceDetails |-> InitialServiceDetails,
     showBasicCleaning |-> FALSE,
     showReleaseForm |-> FALSE,
     releaseData |->
        [afterPhotos |-> <<>>,
         additionalBilling |->
            IF entry.additionalBilling = None THEN <<>>
            ELSE toString(entry.additionalBilling[1]),
         deliveryOption |->
            IF entry.deliveryOption = None THEN ""
            ELSE entry.deliveryOption[1],
         deliveryAddress |-> entry.deliveryAddress]]

BackendInitial ==
    [active |-> EmptyObject, deleted |-> EmptyObject, nextId |-> 1, now |-> 0]

\* The App just after it has mounted with a stored token and has loaded the
\* lists of a backend that holds no entry yet.
Init ==
    /\ entries = <<>>
    /\ deletedEntries = <<>>
    /\ isAuthenticated = TRUE
    /\ authToken = TRUE
    /\ activeView = "new-entry"
    /\ newEntryState = NewEntryInitial
    /\ pendingState = PendingInitial
    /\ tendState = None
    /\ substantialState = ListViewInitial
    /\ completedState = ListViewInitial
    /\ deletedState = DeletedInitial
    /\ reads = <<>>
    /\ inflight = EmptyObject
    /\ inFlightRequests = 0
    /\ isLoading = FALSE
    /\ nextRid = 1
    /\ backend = BackendInitial
    /\ toast = <<>>

----------------------------------------------------------------------------
(* api.ts: request().                                                      *)

Request(api, id, body, rest, snapshot, caller) ==
    [api |-> api, id |-> id, body |-> body, rest |-> rest,
     snapshot |-> snapshot, caller |-> caller, auth |-> authToken,
     mounted |-> TRUE, stage |-> "sent", resp |-> None, error |-> ""]

CanIssue(n) == nextRid + n - 1 <= MaxRequests

\* request(), before its fetch: inFlightRequests += 1; notifyLoading(),
\* whose subscriber is App's (count) => setIsLoading(count > 0)
RequestStarted ==
    /\ inFlightRequests' = inFlightRequests + 1
    /\ isLoading' = (inFlightRequests' > 0)

\* request(), its finally:
\* inFlightRequests = Math.max(0, inFlightRequests - 1); notifyLoading()
RequestSettled ==
    /\ inFlightRequests' =
          IF inFlightRequests - 1 > 0 THEN inFlightRequests - 1 ELSE 0
    /\ isLoading' = (inFlightRequests' > 0)

Issue(flight, req) == Spread(flight, [r \in {nextRid} |-> req])

Without(flight, rid) == [r \in DOMAIN flight \ {rid} |-> flight[r]]

\* The reads of a component that unmounts: their onload sets the state of a
\* component that is gone, which React ignores. They leave the model here.
Orphaned(rs, targets) ==
    SelectSeq(rs, LAMBDA rd : rd.target \notin targets)

----------------------------------------------------------------------------
(* App.tsx: the handlers handed to the views. Each is the part of the      *)
(* handler that runs before its first await; the rest runs in Resume.      *)

\* const updateEntry = async (id, updates) => {...}
updateEntry(id, updates) ==
    LET rest == Omit(updates, {"waiverPdf", "createdAt", "updatedAt"})
    IN  /\ inflight' = Issue(inflight,
               Request("updateEntryApi", id, Some(JSONstringify(rest)),
                       Some(rest), None, ""))
        /\ nextRid' = nextRid + 1
        /\ RequestStarted

\* const addEntry = async (entry) => {...}
addEntry(entry) ==
    LET rest == Omit(entry, {"waiverPdf"})
    IN  /\ inflight' = Issue(inflight,
               Request("createEntry", 0, Some(JSONstringify(rest)), None,
                       None, ""))
        /\ nextRid' = nextRid + 1
        /\ RequestStarted

----------------------------------------------------------------------------
(* Rendering: which components are on screen.                              *)

Mounted(view) == isAuthenticated /\ activeView = view

PendingList == FilterStatus(entries, "pending")
SubstantialList == FilterStatus(entries, "substantial-completion")
CompletedList == FilterStatus(entries, "completed")

\* Pending, SubstantialCompletion, Completed and Deleted return an empty
\* card, without their dialogs, when the list they are given is empty.
PendingShown == Mounted("pending") /\ PendingList # <<>>
SubstantialShown == Mounted("substantial-completion") /\ SubstantialList # <<>>
CompletedShown == Mounted("completed") /\ CompletedList # <<>>
DeletedShown == Mounted("deleted") /\ deletedEntries # <<>>

\* {selectedEntry && <TendDialog entry={selectedEntry} .../>} inside the
\* Dialog that dialogOpen opens
TendMounted ==
    /\ PendingShown
    /\ pendingState.dialogOpen
    /\ pendingState.selectedEntry # None

PendingEditShown == PendingShown /\ pendingState.editOpen
SubstantialEditShown == SubstantialShown /\ substantialState.dialogOpen
CompletedEditShown == CompletedShown /\ completedState.dialogOpen
DeletedAlertShown ==
    /\ DeletedShown
    /\ deletedState.alert # None
    /\ Find(deletedEntries, deletedState.alert[1].id) # None

\* a dialog is in front of the page
ModalShown ==
    \/ (TendMounted /\ tendState # None)
    \/ PendingEditShown
    \/ SubstantialEditShown
    \/ CompletedEditShown
    \/ DeletedAlertShown

\* What React leaves of the Tend dialog and of the reads once the other
\* variables have their new values: the dialog keeps the state `t` the
\* handler gave it while it stays mounted, starts from useState's values
\* when it mounts, and is gone otherwise; the reads in `rs` that belong to a
\* component that has gone are dropped.
Render(t, rs) ==
    /\ tendState' =
          IF TendMounted'
          THEN IF t # None THEN t
               ELSE Some(TendInitial(pendingState'.selectedEntry[1]))
          ELSE None
    /\ reads' =
          LET gone ==
                  (IF tendState # None /\ (t = None \/ ~TendMounted')
                   THEN {"after"} ELSE {})
                  \cup
                  (IF Mounted("new-entry") /\ ~Mounted("new-entry")'
                   THEN {"before"} ELSE {})
                  \cup
                  (IF Mounted("pending") /\ ~Mounted("pending")'
                   THEN {"edit"} ELSE {})
          IN  Orphaned(rs, gone)

----------------------------------------------------------------------------
(* NewEntry.tsx.                                                           *)

\* SERVICE_OPTIONS: id -> price
SERVICE_OPTIONS ==
    ("basic-clean" :> 399) @@ ("deep-clean" :> 499) @@ ("unyellow" :> 600)
        @@ ("restoration" :> 600) @@ ("customization" :> 600)

IsSelected(selected, serviceId) ==
    serviceId \in DOMAIN selected /\ selected[serviceId]

RECURSIVE SumPrices(_)
SumPrices(ids) ==
    IF ids = {} THEN 0
    ELSE LET id == CHOOSE x \in ids : TRUE
         IN  SERVICE_OPTIONS[id] + SumPrices(ids \ {id})

\* the effect that recomputes the total from the selected services
ComputedTotal(selected) ==
    SumPrices({id \in DOMAIN selected : selected[id]})

\* const handleInputChange = (field, value) => {...}
handleInputChange(field, value) ==
    /\ Mounted("new-entry")
    /\ newEntryState' = [newEntryState EXCEPT ![field] = value]
    /\ UNCHANGED <<appVars, pendingState, substantialState, completedState,
                   deletedState, netVars>>
    /\ toast' = <<>>
    /\ Render(tendState, reads)

\* const handleServiceToggle = (serviceId) => {...}, and the total's effect
handleServiceToggle(serviceId) ==
    /\ Mounted("new-entry")
    /\ LET selected ==
               Spread(newEntryState.selectedServices,
                      [k \in {serviceId} |->
                          ~IsSelected(newEntryState.selectedServices, k)])
       IN  newEntryState' =
               [newEntryState EXCEPT !.selectedServices = selected,
                                     !.totalAmount = ComputedTotal(selected)]
    /\ UNCHANGED <<appVars, pendingState, substantialState, completedState,
                   deletedState, netVars>>
    /\ toast' = <<>>
    /\ Render(tendState, reads)

StartReads(target, files) ==
    reads \o [i \in 1..Len(files) |->
                 [target |-> target, photo |-> files[i]]]

\* const handleBeforePhotoUpload = (event) => {...}
readBeforePhotos(files) ==
    /\ Mounted("new-entry")
    /\ UNCHANGED <<appVars, newEntryState, pendingState, substantialState,
                   completedState, deletedState, netVars>>
    /\ toast' = <<>>
    /\ Render(tendState, StartReads("before", files))

\* the same, with at most MaxPhotos photos and reads
handleBeforePhotoUpload(files) ==
    /\ Len(newEntryState.beforePhotos) + Len(reads) + Len(files)
          <= MaxPhotos
    /\ readBeforePhotos(files)

\* const removeBeforePhoto = (index) => {...}
removeBeforePhoto(index) ==
    /\ Mounted("new-entry")
    /\ index \in 1..Len(newEntryState.beforePhotos)
    /\ newEntryState' =
          [newEntryState EXCEPT
              !.beforePhotos = RemoveAt(newEntryState.beforePhotos, index)]
    /\ toast' = <<"Photo removed">>
    /\ UNCHANGED <<appVars, pendingState, substantialState, completedState,
                   deletedState, netVars>>
    /\ Render(tendState, reads)

\* const handleTotalAmountChange = (amount) => {...}
handleTotalAmountChange(amount) ==
    /\ Mounted("new-entry")
    /\ newEntryState' = [newEntryState EXCEPT !.totalAmount = amount]
    /\ UNCHANGED <<appVars, pendingState, substantialState, completedState,
                   deletedState, netVars>>
    /\ toast' = <<>>
    /\ Render(tendState, reads)

\* validateForm that returns at the first rule it finds unmet
validateForm_firstOnly(f) ==
    IF trim(f.customerPhone) = <<>>
    THEN <<"Phone number is required">>
    ELSE IF trim(f.deliveryAddress) = <<>>
    THEN <<"Delivery address is required">>
    ELSE IF ~\E id \in DOMAIN f.selectedServices : f.selectedServices[id]
    THEN <<"At least one service must be selected">>
    ELSE IF f.totalAmount <= 0
    THEN <<"Total amount must be greater than 0">>
    ELSE IF Len(f.beforePhotos) = 0
    THEN <<"Please upload at least one before photo">>
    ELSE <<>>

\* const validateForm = () => {...}
validateForm(f) ==
    (IF trim(f.customerPhone) = <<>>
     THEN <<"Phone number is required">> ELSE <<>>)
    \o (IF trim(f.deliveryAddress) = <<>>
        THEN <<"Delivery address is required">> ELSE <<>>)
    \o (IF ~\E id \in DOMAIN f.selectedServices : f.selectedServices[id]
        THEN <<"At least one service must be selected">> ELSE <<>>)
    \o (IF f.totalAmount <= 0
        THEN <<"Total amount must be greater than 0">> ELSE <<>>)
    \o (IF Len(f.beforePhotos) = 0
        THEN <<"Please upload at least one before photo">> ELSE <<>>)

CreatesInFlight ==
    Cardinality({r \in DOMAIN inflight :
                    inflight[r].api = "createEntry" /\ inflight[r].stage = "sent"})

\* handleSubmit that reports the errors and goes on to create the entry
handleSubmit_noReturn ==
    /\ Mounted("new-entry")
    /\ LET f == newEntryState
           validationErrors == validateForm(f)
       IN  /\ CanIssue(1)
           /\ backend.nextId + CreatesInFlight <= MaxEntries
           /\ addEntry([customerPhone |-> f.customerPhone,
                        deliveryAddress |-> f.deliveryAddress,
                        beforePhotos |-> f.beforePhotos,
                        afterPhotos |-> <<>>,
                        status |-> "pending",
                        billing |-> Some(f.totalAmount)])
           /\ newEntryState' = NewEntryInitial
           /\ toast' = IF Len(validationErrors) > 0 THEN validationErrors
                       ELSE <<"New entry created successfully">>
           /\ UNCHANGED backend
    /\ UNCHANGED <<appVars, pendingState, substantialState, completedState,
                   deletedState>>
    /\ Render(tendState, reads)

\* const handleSubmit = (e) => {...}
handleSubmit ==
    /\ Mounted("new-entry")
    /\ LET f == newEntryState
           validationErrors == validateForm(f)
       IN  IF Len(validationErrors) > 0
           THEN /\ toast' = validationErrors
                /\ UNCHANGED <<newEntryState, netVars>>
           ELSE /\ CanIssue(1)
                /\ backend.nextId + CreatesInFlight <= MaxEntries
                /\ addEntry([customerPhone |-> f.customerPhone,
                             deliveryAddress |-> f.deliveryAddress,
                             beforePhotos |-> f.beforePhotos,
                             afterPhotos |-> <<>>,
                             status |-> "pending",
                             billing |-> Some(f.totalAmount)])
                /\ newEntryState' = NewEntryInitial
                /\ toast' = <<"New entry created successfully">>
                /\ UNCHANGED backend
    /\ UNCHANGED <<appVars, pendingState, substantialState, completedState,
                   deletedState>>
    /\ Render(tendState, reads)

----------------------------------------------------------------------------
(* App.tsx: handleDeleteEntry and handleRestoreEntry up to their await.    *)

\* handleDeleteEntry that keeps no copy of the entry it removes
handleDeleteEntry_noSnapshot(id) ==
    /\ entries' = FilterOutId(entries, id)
    /\ inflight' = Issue(inflight,
           Request("deleteEntry", id, None, None, None, ""))
    /\ nextRid' = nextRid + 1
    /\ RequestStarted

\* const handleDeleteEntry = async (id) => {...}
handleDeleteEntry(id) ==
    /\ entries' = FilterOutId(entries, id)
    /\ inflight' = Issue(inflight,
           Request("deleteEntry", id, None, None, Find(entries, id), ""))
    /\ nextRid' = nextRid + 1
    /\ RequestStarted

\* const handleRestoreEntry = async (id) => {...}
handleRestoreEntry(id) ==
    /\ inflight' = Issue(inflight,
           Request("restoreEntry", id, None, None, None, ""))
    /\ nextRid' = nextRid + 1
    /\ RequestStarted

----------------------------------------------------------------------------
(* Pending.tsx.                                                            *)

\* const handleTend = (entry) => {...}
handleTend(entry) ==
    /\ PendingShown /\ ~ModalShown
    /\ entry \in Elements(PendingList)
    /\ pendingState' = [pendingState EXCEPT !.selectedEntry = Some(entry),
                                            !.dialogOpen = TRUE]
    /\ UNCHANGED <<appVars, newEntryState, substantialState, completedState,
                   deletedState, netVars>>
    /\ toast' = <<>>
    /\ Render(None, reads)

\* <Dialog open={dialogOpen} onOpenChange={setDialogOpen}>: the dialog is
\* dismissed
Pending_closeDialog ==
    /\ TendMounted
    /\ pendingState' = [pendingState EXCEPT !.dialogOpen = FALSE]
    /\ UNCHANGED <<appVars, newEntryState, substantialState, completedState,
                   deletedState, netVars>>
    /\ toast' = <<>>
    /\ Render(None, reads)

\* const handleEdit = (entry) => {...}
handleEdit(entry) ==
    /\ PendingShown /\ ~ModalShown
    /\ entry \in Elements(PendingList)
    /\ pendingState' =
          [pendingState EXCEPT
              !.selectedEntry = Some(entry),
              !.editData = [customerPhone |-> entry.customerPhone,
                            deliveryAddress |-> entry.deliveryAddress,
                            billing |-> entry.billing,
                            beforePhotos |-> entry.beforePhotos],
              !.editOpen = TRUE]
    /\ UNCHANGED <<appVars, newEntryState, substantialState, completedState,
                   deletedState, netVars>>
    /\ toast' = <<>>
    /\ Render(tendState, reads)

\* onChange={(e) => setEditData(prev => ({ ...prev, [field]: value }))}
Pending_setEditData(field, value) ==
    /\ PendingEditShown
    /\ pendingState' =
          [pendingState EXCEPT
              !.editData = Spread(pendingState.editData,
                                  [k \in {field} |-> value])]
    /\ UNCHANGED <<appVars, newEntryState, substantialState, completedState,
                   deletedState, netVars>>
    /\ toast' = <<>>
    /\ Render(tendState, reads)

\* <Button variant="outline" onClick={() => setEditOpen(false)}>Cancel
Pending_cancelEdit ==
    /\ PendingEditShown
    /\ pendingState' = [pendingState EXCEPT !.editOpen = FALSE]
    /\ UNCHANGED <<appVars, newEntryState, substantialState, completedState,
                   deletedState, netVars>>
    /\ toast' = <<>>
    /\ Render(tendState, reads)

\* prev.beforePhotos || []
EditPhotos(editData) ==
    IF "beforePhotos" \in DOMAIN editData THEN editData.beforePhotos ELSE <<>>

\* the reads one call of handleEditPhotoUpload starts: each carries the
\* variables of the call it closes over, newPhotos and processed, and
\* files.length
EditReads(files) ==
    LET used == {reads[j].batch :
                    j \in {k \in 1..Len(reads) : reads[k].target = "edit"}}
        batch == CHOOSE b \in 1..MaxReads :
                    b \notin used /\ \A c \in 1..(b - 1) : c \in used
    IN  [i \in 1..Len(files) |->
            [target |-> "edit", photo |-> files[i], batch |-> batch,
             newPhotos |-> <<>>, processed |-> 0, total |-> Len(files)]]

\* the photos that the calls of handleEditPhotoUpload with reads in flight
\* will add: files.length of every such call, from call `b` on
RECURSIVE EditPhotosAwaited(_)
EditPhotosAwaited(b) ==
    IF b > MaxReads THEN 0
    ELSE (IF \E j \in 1..Len(reads) :
                reads[j].target = "edit" /\ reads[j].batch = b
          THEN (CHOOSE rd \in Elements(reads) :
                    rd.target = "edit" /\ rd.batch = b).total
          ELSE 0)
         + EditPhotosAwaited(b + 1)

\* const handleEditPhotoUpload = (event) => {...}
handleEditPhotoUpload(files) ==
    /\ PendingEditShown
    /\ Len(files) > 0
    /\ Len(EditPhotos(pendingState.editData)) + EditPhotosAwaited(1)
          + Len(files) <= MaxReads
    /\ UNCHANGED <<appVars, newEntryState, pendingState, substantialState,
                   completedState, deletedState, netVars>>
    /\ toast' = <<>>
    /\ Render(tendState, reads \o EditReads(files))

\* const removeEditPhoto = (index) => {...}
removeEditPhoto(index) ==
    /\ PendingEditShown
    /\ index \in 1..Len(EditPhotos(pendingState.editData))
    /\ pendingState' =
          [pendingState EXCEPT
              !.editData =
                  Spread(pendingState.editData,
                         [beforePhotos |->
                             RemoveAt(EditPhotos(pendingState.editData),
                                      index)])]
    /\ toast' = <<"Photo removed">>
    /\ UNCHANGED <<appVars, newEntryState, substantialState, completedState,
                   deletedState, netVars>>
    /\ Render(tendState, reads)

\* reader.onload of handleEditPhotoUpload
Pending_onload(i) ==
    /\ i \in 1..Len(reads)
    /\ reads[i].target = "edit"
    /\ LET rd == reads[i]
           newPhotos == Append(rd.newPhotos, rd.photo)
           processed == rd.processed + 1
           rest == RemoveAt(reads, i)
           others ==
               [j \in 1..Len(rest) |->
                   IF rest[j].target = "edit" /\ rest[j].batch = rd.batch
                   THEN [rest[j] EXCEPT !.newPhotos = newPhotos,
                                        !.processed = processed]
                   ELSE rest[j]]
       IN  /\ IF processed = rd.total
              THEN /\ pendingState' =
                         [pendingState EXCEPT
                             !.editData =
                                 Spread(pendingState.editData,
                                        [beforePhotos |->
                                            EditPhotos(pendingState.editData)
                                                \o newPhotos])]
                   /\ toast' = <<"Photo(s) added">>
              ELSE /\ UNCHANGED pendingState
                   /\ toast' = <<>>
           /\ UNCHANGED <<appVars, newEntryState, substantialState,
                          completedState, deletedState, netVars>>
           /\ Render(tendState, others)

\* const handleSaveEdit = () => {...}
handleSaveEdit ==
    /\ PendingEditShown
    /\ IF pendingState.selectedEntry # None
       THEN /\ CanIssue(1)
            /\ updateEntry(pendingState.selectedEntry[1].id,
                           pendingState.editData)
            /\ pendingState' = [pendingState EXCEPT !.editOpen = FALSE,
                                                    !.selectedEntry = None]
            /\ toast' = <<"Entry updated">>
       ELSE /\ toast' = <<>>
            /\ UNCHANGED <<pendingState, inflight, nextRid, loadVars>>
    /\ UNCHANGED <<appVars, newEntryState, substantialState, completedState,
                   deletedState, backend>>
    /\ Render(tendState, reads)

\* <AlertDialogAction onClick={() => onDeleteEntry(entry.id)}>Delete
Pending_onDeleteEntry(entry) ==
    /\ PendingShown /\ ~ModalShown
    /\ entry \in Elements(PendingList)
    /\ CanIssue(1)
    /\ handleDeleteEntry(entry.id)
    /\ UNCHANGED <<deletedEntries, isAuthenticated, authToken, activeView,
                   newEntryState, pendingState, substantialState,
                   completedState, deletedState, backend>>
    /\ toast' = <<>>
    /\ Render(tendState, reads)

----------------------------------------------------------------------------
(* TendDialog.tsx.                                                         *)

\* which of the service questions the dialog shows
FieldShown(t, field) ==
    /\ ~t.showReleaseForm
    /\ CASE field = "serviceType" ->
              t.serviceDetails.isShoeClean = "no" /\ ~t.showBasicCleaning
         [] field = "basicCleaning" -> t.showBasicCleaning
         [] OTHER -> TRUE

\* const handleServiceDetailsChange = (field, value) => {...}
handleServiceDetailsChange(field, value) ==
    /\ tendState # None
    /\ FieldShown(tendState[1], field)
    /\ UNCHANGED <<appVars, newEntryState, pendingState, substantialState,
                   completedState, deletedState, netVars>>
    /\ toast' = <<>>
    /\ LET t == tendState[1]
           show == IF field = "isShoeClean" /\ value = "no" THEN TRUE
                   ELSE IF field = "isShoeClean" /\ value = "yes" THEN FALSE
                   ELSE t.showBasicCleaning
       IN  Render(Some([t EXCEPT !.serviceDetails[field] = value,
                                 !.showBasicCleaning = show]), reads)

\* handleRelease without its check: the release form opens whatever the
\* answers are.
handleRelease_unguarded ==
    /\ tendState # None
    /\ ~tendState[1].showReleaseForm
    /\ UNCHANGED <<appVars, newEntryState, pendingState, substantialState,
                   completedState, deletedState, netVars>>
    /\ toast' = <<>>
    /\ Render(Some([tendState[1] EXCEPT !.showReleaseForm = TRUE]), reads)

\* handleRelease without the else: the error is shown and the release form
\* opens all the same.
handleRelease_fallThrough ==
    /\ tendState # None
    /\ ~tendState[1].showReleaseForm
    /\ UNCHANGED <<appVars, newEntryState, pendingState, substantialState,
                   completedState, deletedState, netVars>>
    /\ toast' =
          IF Truthy(checkIfCanRelease(tendState[1].serviceDetails)) THEN <<>>
          ELSE <<"Please complete all required service steps before release">>
    /\ Render(Some([tendState[1] EXCEPT !.showReleaseForm = TRUE]), reads)

\* const handleRelease = () => {...}
handleRelease ==
    /\ tendState # None
    /\ ~tendState[1].showReleaseForm
    /\ UNCHANGED <<appVars, newEntryState, pendingState, substantialState,
                   completedState, deletedState, netVars>>
    /\ IF Truthy(checkIfCanRelease(tendState[1].serviceDetails))
       THEN /\ toast' = <<>>
            /\ Render(Some([tendState[1] EXCEPT !.showReleaseForm = TRUE]),
                      reads)
       ELSE /\ toast' =
                 <<"Please complete all required service steps before release">>
            /\ Render(tendState, reads)

\* const handleAfterPhotoUpload = (event) => {...}
handleAfterPhotoUpload(files) ==
    /\ tendState # None
    /\ tendState[1].showReleaseForm
    /\ Len(tendState[1].releaseData.afterPhotos) + Len(reads)
          + Len(files) <= MaxPhotos
    /\ UNCHANGED <<appVars, newEntryState, pendingState, substantialState,
                   completedState, deletedState, netVars>>
    /\ toast' = <<>>
    /\ Render(tendState, StartReads("after", files))

\* const removeAfterPhoto = (index) => {...}
removeAfterPhoto(index) ==
    /\ tendState # None
    /\ tendState[1].showReleaseForm
    /\ index \in 1..Len(tendState[1].releaseData.afterPhotos)
    /\ toast' = <<"Photo removed">>
    /\ UNCHANGED <<appVars, newEntryState, pendingState, substantialState,
                   completedState, deletedState, netVars>>
    /\ Render(Some([tendState[1] EXCEPT
                       !.releaseData.afterPhotos =
                           RemoveAt(tendState[1].releaseData.afterPhotos, index)]),
              reads)

\* onChange / onValueChange of the release form:
\* setReleaseData(prev => ({ ...prev, [field]: value }))
setReleaseData(field, value) ==
    /\ tendState # None
    /\ tendState[1].showReleaseForm
    /\ field = "deliveryAddress" => tendState[1].releaseData.deliveryOption = "delivery"
    /\ UNCHANGED <<appVars, newEntryState, pendingState, substantialState,
                   completedState, deletedState, netVars>>
    /\ toast' = <<>>
    /\ Render(Some([tendState[1] EXCEPT !.releaseData[field] = value]), reads)


\* the updates of the earlier handleFinalSubmit, which writes the amount
\* entered in the release form to billing and has no delivery address
ReleaseUpdates_v1(serviceDetails, releaseData) ==
    [serviceDetails |-> Some(serviceDetails),
     afterPhotos |-> releaseData.afterPhotos,
     billing |-> Some(OrZero(parseFloat(releaseData.additionalBilling))),
     deliveryOption |-> Some(releaseData.deliveryOption),
     status |-> "substantial-completion"]

\* the Partial<Entry> that handleFinalSubmit builds
ReleaseUpdates(serviceDetails, releaseData) ==
    LET base ==
            [serviceDetails |-> Some(serviceDetails),
             afterPhotos |-> releaseData.afterPhotos,
             deliveryOption |-> Some(releaseData.deliveryOption),
             status |-> "substantial-completion"]
        billed ==
            IF trim(releaseData.additionalBilling) # <<>>
            THEN Spread(base,
                     [additionalBilling |->
                         Some(OrZero(parseFloat(releaseData.additionalBilling)))])
            ELSE base
    IN  IF releaseData.deliveryOption = "delivery"
        THEN Spread(billed, [deliveryAddress |-> releaseData.deliveryAddress])
        ELSE billed

\* the checks without the one on afterPhotos
ReleaseFormError_noPhotos(releaseData) ==
    IF releaseData.deliveryOption = ""
    THEN <<"Please select a delivery option">>
    ELSE IF releaseData.deliveryOption = "delivery"
            /\ trim(releaseData.deliveryAddress) = <<>>
    THEN <<"Delivery address is required when delivery option is selected">>
    ELSE <<>>

\* the checks with !releaseData.deliveryAddress in place of
\* !releaseData.deliveryAddress.trim()
ReleaseFormError_noTrim(releaseData) ==
    IF Len(releaseData.afterPhotos) = 0
    THEN <<"Please upload at least one after photo">>
    ELSE IF releaseData.deliveryOption = ""
    THEN <<"Please select a delivery option">>
    ELSE IF releaseData.deliveryOption = "delivery"
            /\ releaseData.deliveryAddress = <<>>
    THEN <<"Delivery address is required when delivery option is selected">>
    ELSE <<>>

\* the three checks of handleFinalSubmit, in its order: the message of the
\* first one that fails, or <<>>
ReleaseFormError(releaseData) ==
    IF Len(releaseData.afterPhotos) = 0
    THEN <<"Please upload at least one after photo">>
    ELSE IF releaseData.deliveryOption = ""
    THEN <<"Please select a delivery option">>
    ELSE IF releaseData.deliveryOption = "delivery"
            /\ trim(releaseData.deliveryAddress) = <<>>
    THEN <<"Delivery address is required when delivery option is selected">>
    ELSE <<>>

\* const canSubmit = ...
canSubmit(releaseData) ==
    /\ Len(releaseData.afterPhotos) > 0
    /\ releaseData.deliveryOption # ""
    /\ (releaseData.deliveryOption = "pickup"
        \/ trim(releaseData.deliveryAddress) # <<>>)

\* const handleFinalSubmit = () => {...}, with Pending's handleUpdateEntry,
\* the onUpdateEntry it is given, and onClose
handleFinalSubmit ==
    /\ tendState # None
    /\ tendState[1].showReleaseForm
    /\ UNCHANGED <<appVars, newEntryState, substantialState, completedState,
                   deletedState, backend>>
    /\ LET t == tendState[1]
           error == ReleaseFormError(t.releaseData)
       IN  IF error # <<>>
           THEN /\ toast' = error
                /\ UNCHANGED <<pendingState, inflight, nextRid, loadVars>>
                /\ Render(tendState, reads)
           ELSE /\ CanIssue(1)
                /\ updateEntry(pendingState.selectedEntry[1].id,
                               ReleaseUpdates(t.serviceDetails, t.releaseData))
                /\ pendingState' = [pendingState EXCEPT !.dialogOpen = FALSE,
                                                        !.selectedEntry = None]
                /\ toast' = <<"Entry moved to Substantial Completion">>
                /\ Render(None, reads)

----------------------------------------------------------------------------
(* The edit dialogs of SubstantialCompletion.tsx and Completed.tsx.        *)

\* edit data that copies the status of the entry as well
ListViewEditData_withStatus(entry) ==
    [customerPhone |-> entry.customerPhone,
     billing |-> entry.billing,
     additionalBilling |-> entry.additionalBilling,
     deliveryOption |-> entry.deliveryOption,
     deliveryAddress |-> entry.deliveryAddress,
     markedAs |-> entry.markedAs,
     status |-> entry.status]

\* setEditData({...}) of handleEditEntry and of handleViewDetails
ListViewEditData(entry) ==
    [customerPhone |-> entry.customerPhone,
     billing |-> entry.billing,
     additionalBilling |-> entry.additionalBilling,
     deliveryOption |-> entry.deliveryOption,
     deliveryAddress |-> entry.deliveryAddress,
     markedAs |-> entry.markedAs]

\* the delivery address input is rendered for deliveryOption 'delivery' only
EditFieldShown(editData, field) ==
    field = "deliveryAddress" =>
        ("deliveryOption" \in DOMAIN editData
         /\ editData.deliveryOption = Some("delivery"))

\* SubstantialCompletion: const handleEditEntry = (entry) => {...}
handleEditEntry(entry) ==
    /\ SubstantialShown /\ ~ModalShown
    /\ entry \in Elements(SubstantialList)
    /\ substantialState' = [selectedEntry |-> Some(entry),
                            dialogOpen |-> TRUE,
                            editData |-> ListViewEditData(entry)]
    /\ UNCHANGED <<appVars, newEntryState, pendingState, completedState,
                   deletedState, netVars>>
    /\ toast' = <<>>
    /\ Render(tendState, reads)

Substantial_setEditData(field, value) ==
    /\ SubstantialEditShown
    /\ EditFieldShown(substantialState.editData, field)
    /\ substantialState' =
          [substantialState EXCEPT
              !.editData = Spread(substantialState.editData,
                                  [k \in {field} |-> value])]
    /\ UNCHANGED <<appVars, newEntryState, pendingState, completedState,
                   deletedState, netVars>>
    /\ toast' = <<>>
    /\ Render(tendState, reads)

\* SubstantialCompletion: const handleSaveChanges = () => {...}
Substantial_handleSaveChanges ==
    /\ SubstantialEditShown
    /\ IF substantialState.selectedEntry # None
       THEN /\ CanIssue(1)
            /\ updateEntry(substantialState.selectedEntry[1].id,
                           substantialState.editData)
            /\ toast' = <<"Changes saved successfully">>
            /\ substantialState' =
                  [substantialState EXCEPT !.dialogOpen = FALSE]
       ELSE /\ toast' = <<>>
            /\ UNCHANGED <<substantialState, inflight, nextRid, loadVars>>
    /\ UNCHANGED <<appVars, newEntryState, pendingState, completedState,
                   deletedState, backend>>
    /\ Render(tendState, reads)

\* onOpenChange / Cancel: setDialogOpen(false)
Substantial_closeDialog ==
    /\ SubstantialEditShown
    /\ substantialState' = [substantialState EXCEPT !.dialogOpen = FALSE]
    /\ UNCHANGED <<appVars, newEntryState, pendingState, completedState,
                   deletedState, netVars>>
    /\ toast' = <<>>
    /\ Render(tendState, reads)

\* handleMarkAsDone sending a payment mark along with the status
handleMarkAsDone_withMark(entry) ==
    /\ SubstantialShown /\ ~ModalShown
    /\ entry \in Elements(SubstantialList)
    /\ CanIssue(1)
    /\ updateEntry(entry.id,
                   [status |-> "completed", markedAs |-> Some("paid")])
    /\ toast' = <<"Entry marked as completed">>
    /\ UNCHANGED <<appVars, viewVars, backend>>
    /\ UNCHANGED reads

\* const handleMarkAsDone = (entryId) => {...}
handleMarkAsDone(entry) ==
    /\ SubstantialShown /\ ~ModalShown
    /\ entry \in Elements(SubstantialList)
    /\ CanIssue(1)
    /\ updateEntry(entry.id, [status |-> "completed"])
    /\ toast' = <<"Entry marked as completed">>
    /\ UNCHANGED <<appVars, viewVars, backend>>
    /\ UNCHANGED reads

\* Completed: const handleViewDetails = (entry) => {...}
handleViewDetails(entry) ==
    /\ CompletedShown /\ ~ModalShown
    /\ entry \in Elements(CompletedList)
    /\ completedState' = [selectedEntry |-> Some(entry),
                          dialogOpen |-> TRUE,
                          editData |-> ListViewEditData(entry)]
    /\ UNCHANGED <<appVars, newEntryState, pendingState, substantialState,
                   deletedState, netVars>>
    /\ toast' = <<>>
    /\ Render(tendState, reads)

Completed_setEditData(field, value) ==
    /\ CompletedEditShown
    /\ EditFieldShown(completedState.editData, field)
    /\ completedState' =
          [completedState EXCEPT
              !.editData = Spread(completedState.editData,
                                  [k \in {field} |-> value])]
    /\ UNCHANGED <<appVars, newEntryState, pendingState, substantialState,
                   deletedState, netVars>>
    /\ toast' = <<>>
    /\ Render(tendState, reads)

\* Completed: const handleSaveChanges = () => {...}; the dialog stays open
Completed_handleSaveChanges ==
    /\ CompletedEditShown
    /\ IF completedState.selectedEntry # None
       THEN /\ CanIssue(1)
            /\ updateEntry(completedState.selectedEntry[1].id,
                           completedState.editData)
            /\ toast' = <<"Changes saved successfully">>
       ELSE /\ toast' = <<>>
            /\ UNCHANGED <<inflight, nextRid, loadVars>>
    /\ UNCHANGED <<appVars, viewVars, backend, reads>>

Completed_closeDialog ==
    /\ CompletedEditShown
    /\ completedState' = [completedState EXCEPT !.dialogOpen = FALSE]
    /\ UNCHANGED <<appVars, newEntryState, pendingState, substantialState,
                   deletedState, netVars>>
    /\ toast' = <<>>
    /\ Render(tendState, reads)


----------------------------------------------------------------------------
(* Deleted.tsx. The alert is the AlertDialog of one card: opening it sets  *)
(* selectedEntry, and it is on screen while its card is.                   *)

\* <Button onClick={() => setSelectedEntry(entry)}> inside AlertDialogTrigger
Deleted_setSelectedEntry(kind, entry) ==
    /\ DeletedShown /\ ~ModalShown
    /\ entry \in Elements(deletedEntries)
    /\ deletedState' = [deletedState EXCEPT
                           !.selectedEntry = Some(entry),
                           !.alert = Some([kind |-> kind, id |-> entry.id])]
    /\ UNCHANGED <<appVars, newEntryState, pendingState, substantialState,
                   completedState, netVars>>
    /\ toast' = <<>>
    /\ Render(tendState, reads)

\* <AlertDialogCancel>Cancel</AlertDialogCancel>
Deleted_cancel ==
    /\ DeletedAlertShown
    /\ deletedState' = [deletedState EXCEPT !.alert = None]
    /\ UNCHANGED <<appVars, newEntryState, pendingState, substantialState,
                   completedState, netVars>>
    /\ toast' = <<>>
    /\ Render(tendState, reads)

\* onClick={() => selectedEntry && handleRestore(selectedEntry)}, up to the
\* await of handleRestoreEntry
handleRestore ==
    /\ DeletedAlertShown
    /\ deletedState.alert[1].kind = "restore"
    /\ IF deletedState.selectedEntry # None
       THEN /\ CanIssue(3)
            /\ handleRestoreEntry(deletedState.selectedEntry[1].id)
            /\ deletedState' = [deletedState EXCEPT !.alert = None,
                                                    !.isRestoring = TRUE]
       ELSE /\ deletedState' = [deletedState EXCEPT !.alert = None]
            /\ UNCHANGED <<inflight, nextRid, loadVars>>
    /\ UNCHANGED <<appVars, newEntryState, pendingState, substantialState,
                   completedState, backend>>
    /\ toast' = <<>>
    /\ Render(tendState, reads)

\* onClick={() => selectedEntry && handlePermanentDelete(selectedEntry)},
\* up to the await of onPermanentDelete
handlePermanentDelete ==
    /\ DeletedAlertShown
    /\ deletedState.alert[1].kind = "permanent"
    /\ IF deletedState.selectedEntry # None
       THEN /\ CanIssue(1)
            /\ inflight' = Issue(inflight,
                   Request("permanentDeleteEntry",
                           deletedState.selectedEntry[1].id,
                           None, None, None, ""))
            /\ nextRid' = nextRid + 1
            /\ RequestStarted
            /\ deletedState' = [deletedState EXCEPT !.alert = None,
                                                    !.isDeleting = TRUE]
       ELSE /\ deletedState' = [deletedState EXCEPT !.alert = None]
            /\ UNCHANGED <<inflight, nextRid, loadVars>>
    /\ UNCHANGED <<appVars, newEntryState, pendingState, substantialState,
                   completedState, backend>>
    /\ toast' = <<>>
    /\ Render(tendState, reads)

----------------------------------------------------------------------------
(* App.tsx: the sidebar, logout and login.                                 *)

\* the requests the Deleted view awaits
FromDeleted(r) ==
    r.api \in {"restoreEntry", "permanentDeleteEntry"}
    \/ r.caller = "handleRestoreEntry"

\* the Deleted view unmounts: its handlers resume with nothing to update
DeletedUnmounted(flight) ==
    [r \in DOMAIN flight |->
        IF FromDeleted(flight[r]) THEN [flight[r] EXCEPT !.mounted = FALSE]
        ELSE flight[r]]

\* every view starts from useState's values when it mounts again
ViewsReset ==
    /\ newEntryState' = NewEntryInitial
    /\ pendingState' = PendingInitial
    /\ substantialState' = ListViewInitial
    /\ completedState' = ListViewInitial
    /\ deletedState' = DeletedInitial

\* onViewChange={(view) => setActiveView(view as ViewType)}
onViewChange(view) ==
    /\ isAuthenticated /\ ~ModalShown
    /\ view \in Views \ {activeView}
    /\ activeView' = view
    /\ ViewsReset
    /\ inflight' = DeletedUnmounted(inflight)
    /\ UNCHANGED <<entries, deletedEntries, isAuthenticated, authToken,
                   nextRid, loadVars, backend>>
    /\ toast' = <<>>
    /\ Render(None, reads)

\* const handleLogout = () => {...}
handleLogout ==
    /\ isAuthenticated /\ ~ModalShown
    /\ isAuthenticated' = FALSE
    /\ toast' = <<"Logged out successfully">>
    /\ authToken' = FALSE
    /\ entries' = <<>>
    /\ deletedEntries' = <<>>
    /\ ViewsReset
    /\ inflight' = DeletedUnmounted(inflight)
    /\ UNCHANGED <<activeView, nextRid, loadVars, backend>>
    /\ Render(None, reads)

LoginInFlight == \E r \in DOMAIN inflight : inflight[r].api = "loginApi"

\* Auth.tsx: const handleLogin = async (e) => {...}, up to its await
Auth_handleLogin ==
    /\ ~isAuthenticated
    /\ ~LoginInFlight
    /\ CanIssue(3)
    /\ inflight' = Issue(inflight, Request("loginApi", 0, None, None, None, ""))
    /\ nextRid' = nextRid + 1
    /\ RequestStarted
    /\ UNCHANGED <<appVars, viewVars, backend, reads>>
    /\ toast' = <<>>


----------------------------------------------------------------------------
(* api.ts: a request settles. The backend answers a request that carries a *)
(* token and names an entry of the right set; any request can fail.        *)

BackendAccepts(b, r) ==
    /\ r.api # "loginApi" => r.auth
    /\ CASE r.api \in {"updateEntryApi", "deleteEntry"} ->
                r.id \in DOMAIN b.active
         [] r.api \in {"restoreEntry", "permanentDeleteEntry"} ->
                r.id \in DOMAIN b.deleted
         [] r.api = "createEntry" -> b.nextId <= MaxEntries
         [] OTHER -> TRUE

BackendApply(b, r) ==
    CASE r.api = "createEntry" -> BackendCreate(b, r.body[1])
      [] r.api = "updateEntryApi" -> BackendUpdate(b, r.id, r.body[1])
      [] r.api = "deleteEntry" -> BackendDelete(b, r.id)
      [] r.api = "restoreEntry" -> BackendRestore(b, r.id)
      [] r.api = "permanentDeleteEntry" -> BackendPermanentDelete(b, r.id)
      [] OTHER -> b

\* the body of the response, read from the store `b` after the request
BackendResponse(b, r, id) ==
    CASE r.api = "createEntry" -> Some(b.active[id])
      [] r.api = "updateEntryApi" -> Some(b.active[id])
      [] r.api = "listEntries" -> Some(BackendList(b.active))
      [] r.api = "listDeletedEntries" -> Some(BackendList(b.deleted))
      [] OTHER -> None

\* how a call of the api can throw: fetch rejects ("network"), or the
\* response is not ok and handleResponse throws ("http")
FetchErrors(b, r) ==
    {"network"} \cup (IF BackendAccepts(b, r) THEN {} ELSE {"http"})

\* async function request(input, init): fetch settles
request(rid) ==
    /\ rid \in DOMAIN inflight
    /\ inflight[rid].stage = "sent"
    /\ LET r == inflight[rid] IN
       \/ /\ BackendAccepts(backend, r)
          /\ backend' = BackendApply(backend, r)
          /\ inflight' =
                [inflight EXCEPT
                    ![rid].stage = "resolved",
                    ![rid].resp =
                        BackendResponse(backend', r,
                            IF r.api = "createEntry" THEN backend.nextId
                            ELSE r.id)]
       \/ /\ \E error \in FetchErrors(backend, r) :
                inflight' = [inflight EXCEPT ![rid].stage = "rejected",
                                             ![rid].error = error]
          /\ UNCHANGED backend
    /\ RequestSettled
    /\ UNCHANGED <<appVars, viewVars, reads, nextRid>>
    /\ toast' = <<>>

Settled(rid, api) ==
    /\ rid \in DOMAIN inflight
    /\ inflight[rid].api = api
    /\ inflight[rid].stage # "sent"

----------------------------------------------------------------------------
(* App.tsx: the handlers resume after their await.                         *)

\* addEntry after `await createEntry(payload)`
addEntry_resume(rid) ==
    /\ Settled(rid, "createEntry")
    /\ LET r == inflight[rid] IN
       IF r.stage = "resolved"
       THEN /\ entries' = Append(entries, mapEntry(r.resp[1]))
            /\ toast' = <<"Entry saved">>
       ELSE /\ toast' = <<"Failed to save entry">>
            /\ UNCHANGED entries
    /\ inflight' = Without(inflight, rid)
    /\ UNCHANGED <<deletedEntries, isAuthenticated, authToken, activeView,
                   newEntryState, pendingState, substantialState,
                   completedState, deletedState, nextRid, loadVars, backend>>
    /\ Render(tendState, reads)

\* prev.map(entry => entry.id === id ? {...entry, ...rest, updatedAt} : entry)
\* a merge that stamps createdAt as well as updatedAt
MergeUpdate_created(prev, id, rest, updated) ==
    [i \in 1..Len(prev) |->
        IF prev[i].id = id
        THEN Spread(Spread(prev[i], rest),
                    [updatedAt |-> updated.updatedAt,
                     createdAt |-> updated.updatedAt])
        ELSE prev[i]]

MergeUpdate(prev, id, rest, updated) ==
    [i \in 1..Len(prev) |->
        IF prev[i].id = id
        THEN Spread(Spread(prev[i], rest), [updatedAt |-> updated.updatedAt])
        ELSE prev[i]]

\* updateEntry after `await updateEntryApi(id, rest)`
updateEntry_resume(rid) ==
    /\ Settled(rid, "updateEntryApi")
    /\ LET r == inflight[rid] IN
       IF r.stage = "resolved"
       THEN /\ entries' = MergeUpdate(entries, r.id, r.rest[1], r.resp[1])
            /\ toast' = <<"Entry updated">>
       ELSE /\ toast' = <<"Failed to update entry">>
            /\ UNCHANGED entries
    /\ inflight' = Without(inflight, rid)
    /\ UNCHANGED <<deletedEntries, isAuthenticated, authToken, activeView,
                   newEntryState, pendingState, substantialState,
                   completedState, deletedState, nextRid, loadVars, backend>>
    /\ Render(tendState, reads)

\* handleDeleteEntry after `await deleteEntry(id)`
handleDeleteEntry_resume(rid) ==
    /\ Settled(rid, "deleteEntry")
    /\ LET r == inflight[rid] IN
       IF r.stage = "resolved"
       THEN /\ deletedEntries' =
                 IF r.snapshot # None THEN <<r.snapshot[1]>> \o deletedEntries
                 ELSE deletedEntries
            /\ toast' = <<"Entry deleted successfully">>
       ELSE /\ toast' = <<"Failed to delete entry">>
            /\ UNCHANGED deletedEntries
    /\ inflight' = Without(inflight, rid)
    /\ UNCHANGED <<entries, isAuthenticated, authToken, activeView,
                   newEntryState, pendingState, substantialState,
                   completedState, deletedState, nextRid, loadVars, backend>>
    /\ Render(tendState, reads)


\* `finally` of Deleted.handleRestore / handlePermanentDelete, on the
\* component that started the handler if it is still there
DeletedFinally(r, flag) ==
    IF r.mounted
    THEN [deletedState EXCEPT ![flag] = FALSE, !.selectedEntry = None]
    ELSE deletedState

\* the next request of a chain of awaits: it resumes the same callers
Chained(r, api) ==
    [Request(api, 0, None, None, None, r.caller) EXCEPT !.mounted = r.mounted]

\* handleRestoreEntry that does not reload the lists after the restore
handleRestoreEntry_noReload(rid) ==
    /\ Settled(rid, "restoreEntry")
    /\ LET r == inflight[rid] IN
       /\ toast' = IF r.stage = "resolved"
                   THEN <<"Entry restored successfully">>
                   ELSE <<"Failed to restore entry">>
       /\ deletedState' = DeletedFinally(r, "isRestoring")
    /\ inflight' = Without(inflight, rid)
    /\ UNCHANGED <<nextRid, loadVars>>
    /\ UNCHANGED <<appVars, newEntryState, pendingState, substantialState,
                   completedState, backend>>
    /\ Render(tendState, reads)

\* handleRestoreEntry after `await restoreEntry(id)`: loadAllData() up to
\* its first await, or the catch
handleRestoreEntry_resume(rid) ==
    /\ Settled(rid, "restoreEntry")
    /\ LET r == inflight[rid] IN
       IF r.stage = "resolved"
       THEN /\ inflight' =
                 Issue(Without(inflight, rid),
                       Chained([r EXCEPT !.caller = "handleRestoreEntry"],
                               "listEntries"))
            /\ nextRid' = nextRid + 1
            /\ RequestStarted
            /\ toast' = <<>>
            /\ UNCHANGED deletedState
       ELSE /\ toast' = <<"Failed to restore entry">>
            /\ deletedState' = DeletedFinally(r, "isRestoring")
            /\ inflight' = Without(inflight, rid)
            /\ UNCHANGED <<nextRid, loadVars>>
    /\ UNCHANGED <<appVars, newEntryState, pendingState, substantialState,
                   completedState, backend>>
    /\ Render(tendState, reads)

\* what handleRestoreEntry does once loadAllData has returned
AfterLoad(r) ==
    IF r.caller = "handleRestoreEntry"
    THEN <<"Entry restored successfully">> ELSE <<>>

\* loadAllData after `await listEntries()`
loadAllData_listEntries(rid) ==
    /\ Settled(rid, "listEntries")
    /\ LET r == inflight[rid] IN
       IF r.stage = "resolved"
       THEN /\ entries' = MapEntries(r.resp[1])
            /\ inflight' = Issue(Without(inflight, rid),
                                 Chained(r, "listDeletedEntries"))
            /\ nextRid' = nextRid + 1
            /\ RequestStarted
            /\ UNCHANGED <<isAuthenticated, authToken, newEntryState,
                           pendingState, substantialState, completedState,
                           deletedState>>
            /\ toast' = <<>>
       ELSE /\ toast' = <<"Failed to load entries">> \o AfterLoad(r)
            /\ authToken' = FALSE
            /\ isAuthenticated' = FALSE
            /\ ViewsReset
            /\ inflight' = DeletedUnmounted(Without(inflight, rid))
            /\ isLoading' = FALSE
            /\ UNCHANGED <<entries, nextRid, inFlightRequests>>
    /\ UNCHANGED <<deletedEntries, activeView, backend>>
    /\ Render(tendState, reads)

\* loadAllData whose second catch leaves the deleted list as it is
loadAllData_keepsDeleted(rid) ==
    /\ Settled(rid, "listDeletedEntries")
    /\ LET r == inflight[rid] IN
       /\ deletedEntries' = IF r.stage = "resolved" THEN MapEntries(r.resp[1])
                            ELSE deletedEntries
       /\ toast' = AfterLoad(r)
       /\ deletedState' = IF r.caller = "handleRestoreEntry"
                          THEN DeletedFinally(r, "isRestoring")
                          ELSE deletedState
    /\ inflight' = Without(inflight, rid)
    /\ isLoading' = FALSE
    /\ UNCHANGED <<entries, isAuthenticated, authToken, activeView,
                   newEntryState, pendingState, substantialState,
                   completedState, nextRid, inFlightRequests, backend>>
    /\ Render(tendState, reads)

\* loadAllData after `await listDeletedEntries()`
loadAllData_listDeletedEntries(rid) ==
    /\ Settled(rid, "listDeletedEntries")
    /\ LET r == inflight[rid] IN
       /\ deletedEntries' = IF r.stage = "resolved" THEN MapEntries(r.resp[1])
                            ELSE <<>>
       /\ toast' = AfterLoad(r)
       /\ deletedState' = IF r.caller = "handleRestoreEntry"
                          THEN DeletedFinally(r, "isRestoring")
                          ELSE deletedState
    /\ inflight' = Without(inflight, rid)
    /\ isLoading' = FALSE
    /\ UNCHANGED <<entries, isAuthenticated, authToken, activeView,
                   newEntryState, pendingState, substantialState,
                   completedState, nextRid, inFlightRequests, backend>>
    /\ Render(tendState, reads)

\* onPermanentDelete after `await permanentDeleteEntry(id)`, then the
\* `finally` of Deleted.handlePermanentDelete
onPermanentDelete_resume(rid) ==
    /\ Settled(rid, "permanentDeleteEntry")
    /\ LET r == inflight[rid] IN
       /\ IF r.stage = "resolved"
          THEN /\ deletedEntries' = FilterOutId(deletedEntries, r.id)
               /\ toast' = <<"Entry permanently deleted">>
          ELSE /\ toast' = <<"Failed to permanently delete">>
               /\ UNCHANGED deletedEntries
       /\ deletedState' = DeletedFinally(r, "isDeleting")
    /\ inflight' = Without(inflight, rid)
    /\ UNCHANGED <<entries, isAuthenticated, authToken, activeView,
                   newEntryState, pendingState, substantialState,
                   completedState, nextRid, loadVars, backend>>
    /\ Render(tendState, reads)

\* Auth.handleLogin after `await loginApi(...)`: onLogin() is App.handleLogin,
\* which starts loadAllData
Auth_handleLogin_resume(rid) ==
    /\ Settled(rid, "loginApi")
    /\ LET r == inflight[rid] IN
       IF r.stage = "resolved"
       THEN /\ isAuthenticated' = TRUE
            /\ toast' = <<"Logged in successfully">>
            /\ authToken' = TRUE
            /\ inflight' =
                  Issue(Without(inflight, rid),
                        [Request("listEntries", 0, None, None, None, "")
                            EXCEPT !.auth = TRUE])
            /\ nextRid' = nextRid + 1
            /\ RequestStarted
       ELSE /\ toast' = <<"Login failed">>
            /\ inflight' = Without(inflight, rid)
            /\ UNCHANGED <<isAuthenticated, authToken, nextRid, loadVars>>
    /\ UNCHANGED <<entries, deletedEntries, activeView, newEntryState,
                   pendingState, substantialState, completedState,
                   deletedState, backend>>
    /\ Render(tendState, reads)

----------------------------------------------------------------------------
(* FileReader: a read completes and its onload runs.                       *)

\* reader.onload = (e) => {...} of handleBeforePhotoUpload and of
\* handleAfterPhotoUpload
onload(i) ==
    /\ i \in 1..Len(reads)
    /\ reads[i].target \in {"before", "after"}
    /\ LET rd == reads[i] IN
       /\ newEntryState' =
             IF rd.target = "before"
             THEN [newEntryState EXCEPT
                      !.beforePhotos = Append(newEntryState.beforePhotos,
                                              rd.photo)]
             ELSE newEntryState
       /\ toast' = IF rd.target = "before"
                   THEN <<"Before photo added successfully">>
                   ELSE <<"After photo added successfully">>
       /\ UNCHANGED <<appVars, pendingState, substantialState, completedState,
                      deletedState, netVars>>
       /\ Render(IF rd.target = "after" /\ tendState # None
                 THEN Some([tendState[1] EXCEPT
                               !.releaseData.afterPhotos =
                                   Append(tendState[1].releaseData.afterPhotos,
                                          rd.photo)])
                 ELSE tendState,
                 RemoveAt(reads, i))


----------------------------------------------------------------------------
(* The inputs the user gives.                                              *)

AddressInputs == {<<>>, <<" ">>, <<"a">>}
FileInputs == {<<"p1">>}
BillingInputs == {<<>>, <<" ">>, <<"5">>}

\* the answers the Tend dialog's controls can give
ServiceAnswers ==
    {<<"receivedBy", "taketwo">>, <<"receivedBy", "gameville">>,
     <<"isShoeClean", "yes">>, <<"isShoeClean", "no">>,
     <<"basicCleaning", "yes">>, <<"basicCleaning", "no">>,
     <<"serviceType", "restoration">>, <<"serviceType", "deep-cleaning">>,
     <<"qcPassed", TRUE>>, <<"qcPassed", FALSE>>,
     <<"needsReglue", TRUE>>, <<"needsReglue", FALSE>>,
     <<"needsPaint", TRUE>>, <<"needsPaint", FALSE>>}

ReleaseInputs ==
    {<<"deliveryOption", "pickup">>, <<"deliveryOption", "delivery">>}
    \cup {<<"deliveryAddress", a>> : a \in AddressInputs}
    \cup {<<"additionalBilling", b>> : b \in BillingInputs}

\* the few answers the lifecycle is explored with
LifecycleAnswers ==
    {<<"receivedBy", "taketwo">>, <<"isShoeClean", "yes">>,
     <<"qcPassed", TRUE>>}

LifecycleReleaseInputs ==
    {<<"deliveryOption", "pickup">>, <<"deliveryOption", "delivery">>}

PendingEditInputs == {<<"deliveryAddress", <<>> >>}

ListEditInputs ==
    {<<"deliveryOption", Some("delivery")>>, <<"deliveryAddress", <<>> >>}

----------------------------------------------------------------------------
(* Spec: the whole application from an empty store. The user starts a      *)
(* handler that sends a request only when no request is in flight (the     *)
(* loading indicator is off); everything else interleaves freely with the  *)
(* requests and the reads in flight.                                       *)

Idle == DOMAIN inflight = {}

\* handlers that only touch the state of their component
LocalNext ==
    \/ handleInputChange("customerPhone", <<"9">>)
    \/ handleInputChange("deliveryAddress", <<"a">>)
    \/ handleServiceToggle("basic-clean")
    \/ \E files \in FileInputs : handleBeforePhotoUpload(files)
    \/ \E i \in 1..MaxPhotos : removeBeforePhoto(i)
    \/ \E e \in Elements(entries) : handleTend(e)
    \/ Pending_closeDialog
    \/ \E e \in Elements(entries) : handleEdit(e)
    \/ \E in \in PendingEditInputs : Pending_setEditData(in[1], in[2])
    \/ Pending_cancelEdit
    \/ \E in \in LifecycleAnswers : handleServiceDetailsChange(in[1], in[2])
    \/ handleRelease
    \/ \E files \in FileInputs : handleAfterPhotoUpload(files)
    \/ \E i \in 1..MaxPhotos : removeAfterPhoto(i)
    \/ \E in \in LifecycleReleaseInputs : setReleaseData(in[1], in[2])
    \/ \E e \in Elements(entries) : handleEditEntry(e)
    \/ \E in \in ListEditInputs : Substantial_setEditData(in[1], in[2])
    \/ Substantial_closeDialog
    \/ \E e \in Elements(entries) : handleViewDetails(e)
    \/ \E in \in ListEditInputs : Completed_setEditData(in[1], in[2])
    \/ Completed_closeDialog
    \/ \E e \in Elements(deletedEntries), kind \in {"restore", "permanent"} :
          Deleted_setSelectedEntry(kind, e)
    \/ Deleted_cancel
    \/ \E view \in Views : onViewChange(view)
    \/ handleLogout
    \/ \E i \in 1..MaxPhotos : onload(i)

\* handlers that send a request
SendNext ==
    \/ handleSubmit
    \/ handleSaveEdit
    \/ \E e \in Elements(entries) : Pending_onDeleteEntry(e)
    \/ handleFinalSubmit
    \/ Substantial_handleSaveChanges
    \/ \E e \in Elements(entries) : handleMarkAsDone(e)
    \/ Completed_handleSaveChanges
    \/ handleRestore
    \/ handlePermanentDelete
    \/ Auth_handleLogin

\* a request settles, a handler resumes
NetNext ==
    \E rid \in 1..MaxRequests :
        \/ request(rid)
        \/ addEntry_resume(rid)
        \/ updateEntry_resume(rid)
        \/ handleDeleteEntry_resume(rid)
        \/ handleRestoreEntry_resume(rid)
        \/ loadAllData_listEntries(rid)
        \/ loadAllData_listDeletedEntries(rid)
        \/ onPermanentDelete_resume(rid)
        \/ Auth_handleLogin_resume(rid)

Next ==
    \/ LocalNext
    \/ Idle /\ SendNext
    \/ NetNext

Spec == Init /\ [][Next]_vars


----------------------------------------------------------------------------
(* The other specifications start from a store that holds one pending      *)
(* entry, as NewEntry's handleSubmit and addEntry leave it.                *)

StoredEntry ==
    [id |-> 1, customerPhone |-> <<"9">>, deliveryAddress |-> <<"a">>,
     beforePhotos |-> <<"p1">>, afterPhotos |-> <<>>, status |-> "pending",
     serviceDetails |-> None, billing |-> Some(SERVICE_OPTIONS["basic-clean"]),
     additionalBilling |-> None, deliveryOption |-> None, markedAs |-> None,
     createdAt |-> 1, updatedAt |-> 1]

StoredInitial ==
    [active |-> [i \in {1} |-> StoredEntry], deleted |-> EmptyObject,
     nextId |-> 2, now |-> 1]

\* the Pending view showing the stored entry
InitStored ==
    /\ entries = <<mapEntry(StoredEntry)>>
    /\ deletedEntries = <<>>
    /\ isAuthenticated = TRUE
    /\ authToken = TRUE
    /\ activeView = "pending"
    /\ newEntryState = NewEntryInitial
    /\ pendingState = PendingInitial
    /\ tendState = None
    /\ substantialState = ListViewInitial
    /\ completedState = ListViewInitial
    /\ deletedState = DeletedInitial
    /\ reads = <<>>
    /\ inflight = EmptyObject
    /\ inFlightRequests = 0
    /\ isLoading = FALSE
    /\ nextRid = 2
    /\ backend = StoredInitial
    /\ toast = <<>>

----------------------------------------------------------------------------
(* SpecRace: the release and mark-done handlers with up to MaxInFlight     *)
(* requests in flight at once: the user does not wait for the loading      *)
(* indicator.                                                              *)

InFlight == Cardinality(DOMAIN inflight)

NextRace ==
    \/ \E e \in Elements(entries) : handleTend(e)
    \/ \E in \in LifecycleAnswers : handleServiceDetailsChange(in[1], in[2])
    \/ handleRelease
    \/ \E files \in FileInputs : handleAfterPhotoUpload(files)
    \/ \E i \in 1..MaxPhotos : onload(i)
    \/ setReleaseData("deliveryOption", "pickup")
    \/ InFlight < MaxInFlight /\ handleFinalSubmit
    \/ \E view \in {"pending", "substantial-completion"} : onViewChange(view)
    \/ \E e \in Elements(entries) :
          InFlight < MaxInFlight /\ handleMarkAsDone(e)
    \/ \E rid \in 1..MaxRequests : request(rid)
    \/ \E rid \in 1..MaxRequests : updateEntry_resume(rid)

SpecRace == InitStored /\ [][NextRace]_vars

----------------------------------------------------------------------------
(* SpecTend: the Tend dialog, just opened on the stored entry, with every  *)
(* answer and every input of the release form, up to the update it sends.  *)

\* the dialog open on the stored entry, holding serviceDetails `sd`
TendOpen(sd) ==
    /\ entries = <<mapEntry(StoredEntry)>>
    /\ deletedEntries = <<>>
    /\ isAuthenticated = TRUE
    /\ authToken = TRUE
    /\ activeView = "pending"
    /\ newEntryState = NewEntryInitial
    /\ pendingState = [PendingInitial EXCEPT
                          !.selectedEntry = Some(mapEntry(StoredEntry)),
                          !.dialogOpen = TRUE]
    /\ tendState =
          Some([TendInitial(mapEntry(StoredEntry)) EXCEPT
                   !.serviceDetails = sd,
                   !.showBasicCleaning = (sd.isShoeClean = "no")])
    /\ substantialState = ListViewInitial
    /\ completedState = ListViewInitial
    /\ deletedState = DeletedInitial
    /\ reads = <<>>
    /\ inflight = EmptyObject
    /\ inFlightRequests = 0
    /\ isLoading = FALSE
    /\ nextRid = 2
    /\ backend = StoredInitial
    /\ toast = <<>>

InitTend == TendOpen(InitialServiceDetails)

NextTend ==
    \/ \E in \in ServiceAnswers : handleServiceDetailsChange(in[1], in[2])
    \/ handleRelease
    \/ \E files \in FileInputs : handleAfterPhotoUpload(files)
    \/ \E i \in 1..MaxPhotos : removeAfterPhoto(i)
    \/ \E i \in 1..MaxPhotos : onload(i)
    \/ \E in \in ReleaseInputs : setReleaseData(in[1], in[2])
    \/ handleFinalSubmit
    \/ \E rid \in 1..MaxRequests : request(rid)
    \/ \E rid \in 1..MaxRequests : updateEntry_resume(rid)

SpecTend == InitTend /\ [][NextTend]_vars

----------------------------------------------------------------------------
(* SpecGate: checkIfCanRelease as a function. The dialog holds any         *)
(* serviceDetails at all, and handleRelease applies the gate to them.      *)

InitGate == \E sd \in AllServiceDetails : TendOpen(sd)

NextGate == handleRelease

SpecGate == InitGate /\ [][NextGate]_vars


----------------------------------------------------------------------------
(* SpecDeleted: the Deleted view on one soft-deleted entry, its restore    *)
(* and permanent-delete handlers with up to MaxInFlight requests in        *)
(* flight.                                                                 *)

DeletedStoredInitial ==
    [active |-> EmptyObject, deleted |-> [i \in {1} |-> StoredEntry],
     nextId |-> 2, now |-> 1]

InitDeleted ==
    /\ entries = <<>>
    /\ deletedEntries = <<mapEntry(StoredEntry)>>
    /\ isAuthenticated = TRUE
    /\ authToken = TRUE
    /\ activeView = "deleted"
    /\ newEntryState = NewEntryInitial
    /\ pendingState = PendingInitial
    /\ tendState = None
    /\ substantialState = ListViewInitial
    /\ completedState = ListViewInitial
    /\ deletedState = DeletedInitial
    /\ reads = <<>>
    /\ inflight = EmptyObject
    /\ inFlightRequests = 0
    /\ isLoading = FALSE
    /\ nextRid = 1
    /\ backend = DeletedStoredInitial
    /\ toast = <<>>

NextDeleted ==
    \/ \E e \in Elements(deletedEntries), kind \in {"restore", "permanent"} :
          Deleted_setSelectedEntry(kind, e)
    \/ Deleted_cancel
    \/ InFlight < MaxInFlight /\ handleRestore
    \/ InFlight < MaxInFlight /\ handlePermanentDelete
    \/ \E rid \in 1..MaxRequests : request(rid)
    \/ \E rid \in 1..MaxRequests : handleRestoreEntry_resume(rid)
    \/ \E rid \in 1..MaxRequests : loadAllData_listEntries(rid)
    \/ \E rid \in 1..MaxRequests : loadAllData_listDeletedEntries(rid)
    \/ \E rid \in 1..MaxRequests : onPermanentDelete_resume(rid)

SpecDeleted == InitDeleted /\ [][NextDeleted]_vars

----------------------------------------------------------------------------
(* SpecReload: one pending entry and one deleted entry. The user deletes   *)
(* the first from the Pending view and restores the second from the        *)
(* Deleted view without waiting for either request, so that a delete is    *)
(* outstanding while loadAllData replaces both lists.                      *)

TrashedEntry == [StoredEntry EXCEPT !.id = 2]

ReloadStoredInitial ==
    [active |-> [i \in {1} |-> StoredEntry],
     deleted |-> [i \in {2} |-> TrashedEntry],
     nextId |-> 3, now |-> 1]

InitReload ==
    /\ entries = <<mapEntry(StoredEntry)>>
    /\ deletedEntries = <<mapEntry(TrashedEntry)>>
    /\ isAuthenticated = TRUE
    /\ authToken = TRUE
    /\ activeView = "pending"
    /\ newEntryState = NewEntryInitial
    /\ pendingState = PendingInitial
    /\ tendState = None
    /\ substantialState = ListViewInitial
    /\ completedState = ListViewInitial
    /\ deletedState = DeletedInitial
    /\ reads = <<>>
    /\ inflight = EmptyObject
    /\ inFlightRequests = 0
    /\ isLoading = FALSE
    /\ nextRid = 1
    /\ backend = ReloadStoredInitial
    /\ toast = <<>>

NextReload ==
    \/ \E e \in Elements(entries) :
          InFlight < MaxInFlight /\ Pending_onDeleteEntry(e)
    \/ \E view \in {"pending", "deleted"} : onViewChange(view)
    \/ \E e \in Elements(deletedEntries) : Deleted_setSelectedEntry("restore", e)
    \/ Deleted_cancel
    \/ InFlight < MaxInFlight /\ handleRestore
    \/ \E rid \in 1..MaxRequests : request(rid)
    \/ \E rid \in 1..MaxRequests : handleDeleteEntry_resume(rid)
    \/ \E rid \in 1..MaxRequests : handleRestoreEntry_resume(rid)
    \/ \E rid \in 1..MaxRequests : loadAllData_listEntries(rid)
    \/ \E rid \in 1..MaxRequests : loadAllData_listDeletedEntries(rid)

SpecReload == InitReload /\ [][NextReload]_vars

----------------------------------------------------------------------------
(* SpecIntake: the New Entry form with every kind of draft: blank,         *)
(* whitespace and filled text fields, two services, a total typed by hand  *)
(* and a before photo.                                                     *)

IntakeTexts == {<<>>, <<" ">>, <<"9">>}
IntakeServices == {"basic-clean", "deep-clean"}
IntakeTotals == {0, 500}

NextIntake ==
    \/ \E field \in {"customerPhone", "deliveryAddress"}, value \in IntakeTexts :
          handleInputChange(field, value)
    \/ \E serviceId \in IntakeServices : handleServiceToggle(serviceId)
    \/ \E amount \in IntakeTotals : handleTotalAmountChange(amount)
    \/ \E files \in FileInputs : handleBeforePhotoUpload(files)
    \/ \E i \in 1..MaxPhotos : onload(i)
    \/ \E i \in 1..MaxPhotos : removeBeforePhoto(i)
    \/ Idle /\ handleSubmit
    \/ \E rid \in 1..MaxRequests : request(rid)
    \/ \E rid \in 1..MaxRequests : addEntry_resume(rid)

SpecIntake == Init /\ [][NextIntake]_vars

----------------------------------------------------------------------------
(* SpecPhotos: the New Entry form with up to MaxReads before photos and    *)
(* reads, one or two files per selection, and its submit.                  *)

PhotoSelections == {<<"p1">>, <<"p1", "p2">>}

NextPhotos ==
    \/ handleInputChange("customerPhone", <<"9">>)
    \/ handleInputChange("deliveryAddress", <<"a">>)
    \/ handleServiceToggle("basic-clean")
    \/ \E files \in PhotoSelections :
          /\ Len(newEntryState.beforePhotos) + Len(reads) + Len(files)
                <= MaxReads
          /\ readBeforePhotos(files)
    \/ \E i \in 1..MaxReads : onload(i)
    \/ \E i \in 1..MaxReads : removeBeforePhoto(i)
    \/ Idle /\ handleSubmit
    \/ \E rid \in 1..MaxRequests : request(rid)
    \/ \E rid \in 1..MaxRequests : addEntry_resume(rid)

SpecPhotos == Init /\ [][NextPhotos]_vars

----------------------------------------------------------------------------
(* SpecDraft: SpecPhotos with a user who selects files for the first draft *)
(* only: once a draft has been submitted no file is selected again, and    *)
(* the reads started before the submit complete whenever they do.          *)

Submitted == nextRid > 1

NextDraft ==
    \/ handleInputChange("customerPhone", <<"9">>)
    \/ handleInputChange("deliveryAddress", <<"a">>)
    \/ handleServiceToggle("basic-clean")
    \/ \E files \in PhotoSelections :
          /\ ~Submitted
          /\ Len(newEntryState.beforePhotos) + Len(reads) + Len(files)
                <= MaxReads
          /\ readBeforePhotos(files)
    \/ \E i \in 1..MaxReads : onload(i)
    \/ \E i \in 1..MaxReads : removeBeforePhoto(i)
    \/ Idle /\ handleSubmit
    \/ \E rid \in 1..MaxRequests : request(rid)
    \/ \E rid \in 1..MaxRequests : addEntry_resume(rid)

SpecDraft == Init /\ [][NextDraft]_vars

----------------------------------------------------------------------------
(* SpecEditPhotos: the photos of the edit dialog of the Pending view on    *)
(* the stored entry, with one or two files per selection.                  *)

EditSelections == {<<"p2">>, <<"p2", "p3">>}

NextEditPhotos ==
    \/ \E e \in Elements(entries) : handleEdit(e)
    \/ \E files \in EditSelections : handleEditPhotoUpload(files)
    \/ \E i \in 1..MaxReads : Pending_onload(i)
    \/ \E i \in 1..MaxReads : removeEditPhoto(i)
    \/ Pending_cancelEdit

SpecEditPhotos == InitStored /\ [][NextEditPhotos]_vars

----------------------------------------------------------------------------
(* SpecPatch: App.updateEntry called with a patch, as the components that *)
(* are given onUpdateEntry may call it.                                    *)

\* the patches: empty, only keys that updateEntry strips, one field
PatchInputs ==
    {EmptyObject, [createdAt |-> 9, updatedAt |-> 9],
     [markedAs |-> Some("paid")]}

\* onUpdateEntry(id, updates)
onUpdateEntry(id, updates) ==
    /\ isAuthenticated
    /\ CanIssue(1)
    /\ updateEntry(id, updates)
    /\ toast' = <<>>
    /\ UNCHANGED <<appVars, viewVars, backend, reads>>

NextPatch ==
    \/ \E e \in Elements(entries), u \in PatchInputs :
          InFlight < MaxInFlight /\ onUpdateEntry(e.id, u)
    \/ \E rid \in 1..MaxRequests : request(rid)
    \/ \E rid \in 1..MaxRequests : updateEntry_resume(rid)

SpecPatch == InitStored /\ [][NextPatch]_vars

----------------------------------------------------------------------------
(* The claims.                                                             *)

\* The decision table of the release gate, as the specification states it.
GateTable(sd) ==
    IF sd.receivedBy = "" \/ sd.isShoeClean = "" THEN FALSE
    ELSE IF sd.isShoeClean = "yes" THEN sd.qcPassed
    ELSE IF sd.basicCleaning = "" THEN FALSE
    ELSE IF sd.basicCleaning = "yes" THEN sd.qcPassed
    ELSE sd.serviceType # "" /\ sd.qcPassed

IncompleteSteps ==
    <<"Please complete all required service steps before release">>

\* every entry the client or the store holds
AllEntries ==
    Elements(entries) \cup Elements(deletedEntries)
        \cup {backend.active[i] : i \in DOMAIN backend.active}
        \cup {backend.deleted[i] : i \in DOMAIN backend.deleted}

Released(e) == e.status \in {"substantial-completion", "completed"}

\* the updates in flight that set status to substantial-completion
ReleasesInFlight ==
    {r \in DOMAIN inflight :
        /\ inflight[r].api = "updateEntryApi"
        /\ "status" \in DOMAIN inflight[r].rest[1]
        /\ inflight[r].rest[1].status = "substantial-completion"}

\* C1: every entry with status substantial-completion or completed carries
\* serviceDetails for which the release gate of the specification is true;
\* the release form is open only on answers that pass the gate, and every
\* update that sets substantial-completion carries such serviceDetails.
C1_ReleasedPassedGate ==
    /\ \A e \in AllEntries :
          Released(e) =>
              e.serviceDetails # None /\ GateTable(e.serviceDetails[1])
    /\ (tendState # None /\ tendState[1].showReleaseForm)
          => GateTable(tendState[1].serviceDetails)
    /\ \A r \in ReleasesInFlight :
          /\ "serviceDetails" \in DOMAIN inflight[r].rest[1]
          /\ inflight[r].rest[1].serviceDetails # None
          /\ GateTable(inflight[r].rest[1].serviceDetails[1])

\* C1 witness: an entry released through the Tend dialog has been marked
\* done, and holds the answers it was released with.
C1_Witness ==
    \E e \in Elements(entries) :
        /\ e.status = "completed"
        /\ e.serviceDetails # None
        /\ e.serviceDetails[1].receivedBy = "taketwo"

\* C2: for every combination of answers, checkIfCanRelease is truthy exactly
\* when the decision table says so, handleRelease opens the release form
\* exactly then, and needsReglue and needsPaint never change the result.
C2_GateIsDecisionTable ==
    tendState # None =>
        LET t == tendState[1]
            sd == t.serviceDetails
        IN  /\ Truthy(checkIfCanRelease(sd)) <=> GateTable(sd)
            /\ t.showReleaseForm => GateTable(sd)
            /\ toast = IncompleteSteps => ~GateTable(sd)
            /\ \A a, b \in BOOLEAN :
                  Truthy(checkIfCanRelease(
                      [sd EXCEPT !.needsReglue = a, !.needsPaint = b]))
                  <=> Truthy(checkIfCanRelease(sd))

\* C2 witness: the release form has opened on isShoeClean = no,
\* basicCleaning = no with a service type chosen and QC passed.
C2_Witness ==
    /\ tendState # None
    /\ tendState[1].showReleaseForm
    /\ tendState[1].serviceDetails.isShoeClean = "no"
    /\ tendState[1].serviceDetails.basicCleaning = "no"
    /\ tendState[1].serviceDetails.serviceType = "restoration"
    /\ tendState[1].serviceDetails.qcPassed

C4_CleanDependsOnQcAndReceivedBy ==
    (tendState # None /\ tendState[1].serviceDetails.isShoeClean = "yes")
        => LET sd == tendState[1].serviceDetails IN
           \A other \in AllServiceDetails :
               (/\ other.isShoeClean = "yes"
                /\ other.qcPassed = sd.qcPassed
                /\ (other.receivedBy = "") = (sd.receivedBy = ""))
               => /\ Truthy(checkIfCanRelease(other))
                        <=> Truthy(checkIfCanRelease(sd))
                  /\ tendState[1].showReleaseForm
                        => Truthy(checkIfCanRelease(other))

\* C4 witness: the form has opened on isShoeClean = yes with basicCleaning =
\* no left over from an earlier answer and no service type.
C4_Witness ==
    /\ tendState # None
    /\ tendState[1].showReleaseForm
    /\ tendState[1].serviceDetails.isShoeClean = "yes"
    /\ tendState[1].serviceDetails.basicCleaning = "no"
    /\ tendState[1].serviceDetails.serviceType = ""

\* Scenario A of the specification, and scenario B
ScenarioA(sd) ==
    sd.isShoeClean = "yes" /\ ~sd.qcPassed /\ sd.receivedBy = "taketwo"
ScenarioB(sd) ==
    sd.isShoeClean = "yes" /\ sd.qcPassed /\ sd.receivedBy = "taketwo"

\* what a step of handleRelease must do on serviceDetails `sd`
ReleaseOutcome(sd) ==
    /\ UNCHANGED <<entries, deletedEntries, inflight, nextRid, backend>>
    /\ tendState' # None
    /\ tendState'[1].serviceDetails = sd
    /\ IF GateTable(sd)
       THEN tendState'[1].showReleaseForm
       ELSE ~tendState'[1].showReleaseForm /\ toast' = IncompleteSteps
    /\ ScenarioA(sd) => toast' = IncompleteSteps
    /\ ScenarioB(sd) => tendState'[1].showReleaseForm /\ toast' # IncompleteSteps

\* C5: a step of handleRelease on answers that fail the gate shows the
\* incomplete-service-steps error, leaves the release form closed and sends
\* no update; on answers that pass it opens the release form. Scenario A
\* fails and scenario B succeeds.
C5_RequestRelease ==
    [][handleRelease => ReleaseOutcome(tendState[1].serviceDetails)]_vars

\* C5 witness: handleRelease has refused scenario A.
C5_Witness ==
    /\ tendState # None
    /\ ScenarioA(tendState[1].serviceDetails)
    /\ toast = IncompleteSteps
    /\ ~tendState[1].showReleaseForm
    /\ inflight = EmptyObject


NoAfterPhoto == <<"Please upload at least one after photo">>
NoDeliveryOption == <<"Please select a delivery option">>
NoDeliveryAddress ==
    <<"Delivery address is required when delivery option is selected">>

\* a step that sends nothing and changes no entry
NothingEmitted ==
    UNCHANGED <<entries, deletedEntries, inflight, nextRid, backend>>

\* C6: every entry with status substantial-completion or completed has a
\* non-empty afterPhotos list, and so has every update that sets
\* substantial-completion; a step of handleFinalSubmit on a release form
\* with no after photo reports the missing after photo, sends no update and
\* leaves the dialog open.
C6_AfterPhotosBeforeRelease ==
    /\ [](/\ \A e \in AllEntries : Released(e) => e.afterPhotos # <<>>
          /\ \A r \in ReleasesInFlight :
                /\ "afterPhotos" \in DOMAIN inflight[r].rest[1]
                /\ inflight[r].rest[1].afterPhotos # <<>>)
    /\ [][(handleFinalSubmit /\ tendState[1].releaseData.afterPhotos = <<>>)
            => /\ toast' = NoAfterPhoto
               /\ NothingEmitted
               /\ tendState' = tendState]_vars

\* C6 witness: handleFinalSubmit has refused a release form that has a
\* delivery option but no after photo.
C6_Witness ==
    /\ tendState # None
    /\ tendState[1].showReleaseForm
    /\ tendState[1].releaseData.afterPhotos = <<>>
    /\ tendState[1].releaseData.deliveryOption # ""
    /\ toast = NoAfterPhoto

\* the status of the entry the Tend dialog is open on, in the client's list
\* and in the store
TendedStatusIs(status) ==
    /\ pendingState.selectedEntry # None
    /\ LET id == pendingState.selectedEntry[1].id IN
       /\ \A e \in Elements(entries) : e.id = id => e.status = status
       /\ id \in DOMAIN backend.active => backend.active[id].status = status

\* C7: a step of handleFinalSubmit on a release form with at least one
\* after photo fails with the delivery-address message when deliveryOption
\* is delivery and the address is empty or whitespace only, and with the
\* delivery-option message when deliveryOption is unset; in both cases no
\* update is sent and the entry stays pending. canSubmit is false on
\* exactly the forms handleFinalSubmit refuses.
C7_BlankDeliveryAddress ==
    [][(handleFinalSubmit /\ tendState[1].releaseData.afterPhotos # <<>>)
        => LET rd == tendState[1].releaseData IN
           /\ (rd.deliveryOption = "delivery"
               /\ \A i \in 1..Len(rd.deliveryAddress) :
                     rd.deliveryAddress[i] = " ")
              => /\ toast' = NoDeliveryAddress
                 /\ NothingEmitted
                 /\ tendState' = tendState
                 /\ TendedStatusIs("pending")'
                 /\ ~canSubmit(rd)
           /\ rd.deliveryOption = ""
              => /\ toast' = NoDeliveryOption
                 /\ NothingEmitted
                 /\ tendState' = tendState
                 /\ TendedStatusIs("pending")'
                 /\ ~canSubmit(rd)]_vars

\* C7 witness: handleFinalSubmit has refused a release form with an after
\* photo, deliveryOption = delivery and a whitespace-only address.
C7_Witness ==
    /\ tendState # None
    /\ tendState[1].releaseData.afterPhotos # <<>>
    /\ tendState[1].releaseData.deliveryOption = "delivery"
    /\ tendState[1].releaseData.deliveryAddress = <<" ">>
    /\ toast = NoDeliveryAddress
    /\ inflight = EmptyObject
    /\ TendedStatusIs("pending")

\* C8: every active entry with deliveryOption = delivery has a non-empty
\* delivery address.
C8_DeliveryHasAddress ==
    \A e \in Elements(entries)
              \cup {backend.active[i] : i \in DOMAIN backend.active} :
        e.deliveryOption = Some("delivery") => e.deliveryAddress # <<>>

\* the keys of the update a release form must produce
ReleaseKeys(rd) ==
    {"serviceDetails", "afterPhotos", "deliveryOption", "status"}
        \cup (IF \E i \in 1..Len(rd.additionalBilling) :
                     rd.additionalBilling[i] # " "
              THEN {"additionalBilling"} ELSE {})
        \cup (IF rd.deliveryOption = "delivery"
              THEN {"deliveryAddress"} ELSE {})

\* C9: a step of handleFinalSubmit that passes the checks sends exactly one
\* request, an update of the tended entry, that sets status to
\* substantial-completion and carries the current serviceDetails, the
\* afterPhotos and the deliveryOption, additionalBilling exactly when the
\* input is not blank, deliveryAddress exactly when deliveryOption is
\* delivery, and no other key (no billing, no customer field).
C9_ReleaseUpdate ==
    [][(handleFinalSubmit /\ toast' = <<"Entry moved to Substantial Completion">>)
        => LET t == tendState[1]
               rd == t.releaseData
               r == inflight'[nextRid]
           IN  /\ nextRid \notin DOMAIN inflight
               /\ DOMAIN inflight' = DOMAIN inflight \cup {nextRid}
               /\ \A q \in DOMAIN inflight : inflight'[q] = inflight[q]
               /\ UNCHANGED <<entries, deletedEntries, backend>>
               /\ r.api = "updateEntryApi"
               /\ r.id = pendingState.selectedEntry[1].id
               /\ r.body # None /\ r.rest # None
               /\ DOMAIN r.body[1] = ReleaseKeys(rd)
               /\ DOMAIN r.rest[1] = ReleaseKeys(rd)
               /\ r.body[1] = r.rest[1]
               /\ r.body[1].status = "substantial-completion"
               /\ r.body[1].serviceDetails = Some(t.serviceDetails)
               /\ r.body[1].afterPhotos = rd.afterPhotos
               /\ rd.afterPhotos # <<>>
               /\ r.body[1].deliveryOption = Some(rd.deliveryOption)
               /\ rd.deliveryOption = "delivery"
                     => r.body[1].deliveryAddress = rd.deliveryAddress]_vars

\* C9 witness: the update of a release with an additional bill and a
\* delivery address is in flight.
C9_Witness ==
    \E r \in ReleasesInFlight :
        /\ "additionalBilling" \in DOMAIN inflight[r].body[1]
        /\ "deliveryAddress" \in DOMAIN inflight[r].body[1]
        /\ inflight[r].stage = "sent"

StatusRank(status) ==
    CASE status = "pending" -> 0
      [] status = "substantial-completion" -> 1
      [] status = "completed" -> 2

\* the status moves from `a` to `b` in at most one step forward
Forward(a, b) ==
    StatusRank(b) \in {StatusRank(a), StatusRank(a) + 1}

\* C10: in no step does the status of an entry, in the client's lists or in
\* the store, go backwards or skip from pending to completed; soft-delete
\* and restore keep the status.
C10_StatusForward ==
    [][/\ \A e \in Elements(entries) \cup Elements(deletedEntries) :
          \A f \in Elements(entries') \cup Elements(deletedEntries') :
              e.id = f.id => Forward(e.status, f.status)
       /\ \A i \in DOMAIN backend.active \cup DOMAIN backend.deleted :
          \A j \in DOMAIN backend'.active \cup DOMAIN backend'.deleted :
              i = j =>
                 Forward((IF i \in DOMAIN backend.active
                          THEN backend.active[i] ELSE backend.deleted[i]).status,
                         (IF j \in DOMAIN backend'.active
                          THEN backend'.active[j]
                          ELSE backend'.deleted[j]).status)]_vars


\* `f` is `e` but for the keys in `keys`
SameExcept(e, f, keys) ==
    /\ DOMAIN f = DOMAIN e
    /\ \A k \in DOMAIN e \ keys : f[k] = e[k]

\* the update of a mark-done, in flight as request `rid`
IsMarkDone(rid) ==
    /\ rid \in DOMAIN inflight
    /\ inflight[rid].api = "updateEntryApi"
    /\ inflight[rid].rest # None
    /\ "status" \in DOMAIN inflight[rid].rest[1]
    /\ inflight[rid].rest[1].status = "completed"

\* C11: Mark as Done is offered for exactly the entries with status
\* substantial-completion (each of them, whatever its other fields, once the
\* Substantial Completion view is on screen) and a step of handleMarkAsDone
\* is on such an entry; when its update succeeds, in the store and then in
\* the client's list, the entry's status is completed and no field other
\* than status and updatedAt changes, and no other entry changes.
C11_MarkDone ==
    /\ [](Mounted("substantial-completion") =>
            /\ Elements(SubstantialList) =
                  {e \in Elements(entries) : e.status = "substantial-completion"}
            /\ \A e \in Elements(entries) :
                  (e.status = "substantial-completion" /\ ~ModalShown
                   /\ CanIssue(1)) => ENABLED handleMarkAsDone(e))
    /\ [][/\ \A e \in Elements(entries) :
                handleMarkAsDone(e) =>
                    /\ e.status = "substantial-completion"
                    /\ DOMAIN inflight' = DOMAIN inflight \cup {nextRid}
                    /\ inflight'[nextRid].api = "updateEntryApi"
                    /\ inflight'[nextRid].id = e.id
                    /\ inflight'[nextRid].body[1] = [status |-> "completed"]
          /\ \A rid \in DOMAIN inflight :
                (IsMarkDone(rid) /\ request(rid)
                 /\ inflight'[rid].stage = "resolved") =>
                    LET id == inflight[rid].id IN
                    /\ backend'.active[id].status = "completed"
                    /\ SameExcept(backend.active[id], backend'.active[id],
                                  {"status", "updatedAt"})
                    /\ \A i \in DOMAIN backend.active \ {id} :
                          backend'.active[i] = backend.active[i]
                    /\ backend'.deleted = backend.deleted
          /\ \A rid \in DOMAIN inflight :
                (IsMarkDone(rid) /\ updateEntry_resume(rid)
                 /\ inflight[rid].stage = "resolved") =>
                    /\ Len(entries') = Len(entries)
                    /\ \A i \in 1..Len(entries) :
                          IF entries[i].id = inflight[rid].id
                          THEN /\ entries'[i].status = "completed"
                               /\ SameExcept(entries[i], entries'[i],
                                             {"status", "updatedAt"})
                          ELSE entries'[i] = entries[i]
                    /\ deletedEntries' = deletedEntries]_vars

\* C11 witness: the update of a mark-done has succeeded: the entry is
\* completed in the store and in the client's list.
C11_Witness ==
    /\ toast = <<"Entry updated">>
    /\ \E e \in Elements(entries) :
          /\ e.status = "completed"
          /\ e.id \in DOMAIN backend.active
          /\ backend.active[e.id].status = "completed"
          /\ e.afterPhotos # <<>>


\* the fields an edit must leave alone
EditFrame == {"status", "serviceDetails", "afterPhotos", "id", "createdAt"}

\* a step of one of the three save handlers that sends its update
EditSent ==
    \/ handleSaveEdit /\ pendingState.selectedEntry # None
    \/ Substantial_handleSaveChanges /\ substantialState.selectedEntry # None
    \/ Completed_handleSaveChanges /\ completedState.selectedEntry # None

\* the update in flight as `rid` carries none of the fields of EditFrame
IsEdit(rid) ==
    /\ inflight[rid].api = "updateEntryApi"
    /\ inflight[rid].rest # None
    /\ DOMAIN inflight[rid].rest[1] \cap EditFrame = {}

\* C12: the update sent by Pending.handleSaveEdit,
\* SubstantialCompletion.handleSaveChanges and Completed.handleSaveChanges
\* carries neither status, serviceDetails, afterPhotos, id nor createdAt;
\* when such an update is applied by the store and merged by updateEntry
\* these five fields of the entry are what they were, and no other entry
\* changes; the edit dialog can be opened on every entry of the Pending,
\* Substantial Completion and Completed lists.
C12_EditKeepsStatus ==
    /\ [](/\ (PendingShown /\ ~ModalShown) =>
                \A e \in Elements(entries) :
                    e.status = "pending" => ENABLED handleEdit(e)
          /\ (SubstantialShown /\ ~ModalShown) =>
                \A e \in Elements(entries) :
                    e.status = "substantial-completion"
                        => ENABLED handleEditEntry(e)
          /\ (CompletedShown /\ ~ModalShown) =>
                \A e \in Elements(entries) :
                    e.status = "completed" => ENABLED handleViewDetails(e))
    /\ [][/\ EditSent =>
                /\ DOMAIN inflight' = DOMAIN inflight \cup {nextRid}
                /\ inflight'[nextRid].api = "updateEntryApi"
                /\ DOMAIN inflight'[nextRid].rest[1] \cap EditFrame = {}
                /\ DOMAIN inflight'[nextRid].body[1] \cap EditFrame = {}
                /\ UNCHANGED <<entries, deletedEntries, backend>>
          /\ \A rid \in DOMAIN inflight :
                (IsEdit(rid) /\ request(rid)
                 /\ inflight'[rid].stage = "resolved") =>
                    LET id == inflight[rid].id IN
                    /\ DOMAIN backend'.active = DOMAIN backend.active
                    /\ \A k \in EditFrame :
                          backend'.active[id][k] = backend.active[id][k]
                    /\ \A i \in DOMAIN backend.active \ {id} :
                          backend'.active[i] = backend.active[i]
          /\ \A rid \in DOMAIN inflight :
                (IsEdit(rid) /\ updateEntry_resume(rid)) =>
                    /\ Len(entries') = Len(entries)
                    /\ \A i \in 1..Len(entries) :
                          IF entries[i].id = inflight[rid].id
                          THEN \A k \in EditFrame :
                                  entries'[i][k] = entries[i][k]
                          ELSE entries'[i] = entries[i]]_vars

\* C12 witness: an edit saved from the Completed view's dialog has been
\* merged: the entry is still completed and has lost the address the
\* dialog was opened with.
C12_Witness ==
    /\ CompletedEditShown
    /\ completedState.selectedEntry # None
    /\ completedState.selectedEntry[1].deliveryAddress # <<>>
    /\ toast = <<"Entry updated">>
    /\ \E e \in Elements(entries) :
          /\ e.id = completedState.selectedEntry[1].id
          /\ e.status = "completed"
          /\ e.deliveryAddress = <<>>
          /\ e.serviceDetails = completedState.selectedEntry[1].serviceDetails


\* the update in flight as `rid` is the empty patch
IsEmptyPatch(rid) ==
    /\ inflight[rid].api = "updateEntryApi"
    /\ inflight[rid].rest = Some(EmptyObject)

Ids(list) == {list[i].id : i \in 1..Len(list)}

Restored == <<"Entry restored successfully">>

\* the request in flight as `rid` belongs to a restore and has succeeded
RestoreStep(rid, api) ==
    /\ inflight[rid].api = api
    /\ inflight[rid].caller = "handleRestoreEntry"
    /\ inflight[rid].stage = "resolved"

\* C15: restore after soft-delete brings the entry back as it was. The
\* store moves the entry from its deleted set to its active set with every
\* field but updatedAt kept; the reload of handleRestoreEntry then
\* puts in the client's active list, for every id of the client's deleted
\* list that is active again, an entry equal in all fields except updatedAt
\* to the copy made when it was deleted (the pre-delete entry, C14); and
\* when handleRestoreEntry reports success no id is in both lists, the
\* client's active list holds every active entry of the store, and the
\* store's deleted set holds none of them (the user not having logged out
\* meanwhile, which empties the lists).
C15_DeleteRestoreRoundTrip ==
    [][/\ \A rid \in DOMAIN inflight :
            (inflight[rid].api = "restoreEntry" /\ request(rid)
             /\ inflight'[rid].stage = "resolved") =>
                LET id == inflight[rid].id IN
                /\ id \in DOMAIN backend.deleted
                /\ DOMAIN backend'.deleted = DOMAIN backend.deleted \ {id}
                /\ DOMAIN backend'.active = DOMAIN backend.active \cup {id}
                /\ SameExcept(backend.deleted[id], backend'.active[id],
                              {"updatedAt"})
       /\ \A rid \in DOMAIN inflight :
            (RestoreStep(rid, "listEntries") /\ loadAllData_listEntries(rid))
                => /\ \A d \in Elements(deletedEntries) :
                      \A e \in Elements(entries') :
                          e.id = d.id => SameExcept(d, e, {"updatedAt"})
                   /\ Ids(entries') = DOMAIN backend.active
       /\ (toast' = Restored /\ isAuthenticated') =>
            /\ Ids(entries') \cap Ids(deletedEntries') = {}
            /\ DOMAIN backend'.active \subseteq Ids(entries')
            /\ DOMAIN backend'.active \cap DOMAIN backend'.deleted = {}
            /\ \A e \in Elements(entries') :
                  e.id \in DOMAIN backend'.active
                  /\ SameExcept(backend'.active[e.id], e, {})]_vars

\* C15 witness: a pending entry has been soft-deleted and restored: it is
\* back in the active list, pending, with a later updatedAt, and the
\* deleted list and the store's deleted set are empty.
C15_Witness ==
    /\ toast = Restored
    /\ deletedEntries = <<>>
    /\ DOMAIN backend.deleted = {}
    /\ \E e \in Elements(entries) :
          /\ e.status = "pending"
          /\ e.updatedAt > e.createdAt + 1
          /\ e.id \in DOMAIN backend.active


\* what the handlers report when the call failed in transport
TransportFailureReport(api) ==
    CASE api = "restoreEntry" -> <<"Failed to restore entry">>
      [] api = "permanentDeleteEntry" -> <<"Failed to permanently delete">>

\* the resume step of the handler that awaits request `rid`
ResumeOf(rid) ==
    \/ handleRestoreEntry_resume(rid)
    \/ onPermanentDelete_resume(rid)

\* C16: restore and permanentDelete on an id that is not in the store's
\* deleted set fail and change no set, in the store or in the client, and
\* what the handler then reports is not what it reports for a transport
\* failure; a permanentDelete that succeeds leaves the id in neither set of
\* the store and takes it out of the client's deleted list, and an id
\* that is in neither set of the store stays so.
C16_NotFound ==
    [][/\ \A rid \in DOMAIN inflight :
            (inflight[rid].api \in {"restoreEntry", "permanentDeleteEntry"}
             /\ request(rid)) =>
                LET id == inflight[rid].id IN
                /\ id \notin DOMAIN backend.deleted =>
                      /\ inflight'[rid].stage = "rejected"
                      /\ backend' = backend
                /\ (inflight[rid].api = "permanentDeleteEntry"
                    /\ inflight'[rid].stage = "resolved") =>
                      id \notin DOMAIN backend'.active \cup DOMAIN backend'.deleted
       /\ \A id \in 1..MaxEntries :
            (id < backend.nextId
             /\ id \notin DOMAIN backend.active \cup DOMAIN backend.deleted)
                => id \notin DOMAIN backend'.active \cup DOMAIN backend'.deleted
       /\ \A rid \in DOMAIN inflight :
            (inflight[rid].api \in {"restoreEntry", "permanentDeleteEntry"}
             /\ ResumeOf(rid)) =>
                /\ (inflight[rid].api = "permanentDeleteEntry"
                    /\ inflight[rid].stage = "resolved")
                      => inflight[rid].id \notin Ids(deletedEntries')
                /\ inflight[rid].stage = "rejected" =>
                      /\ entries' = entries
                      /\ deletedEntries' = deletedEntries
                /\ (inflight[rid].stage = "rejected"
                    /\ inflight[rid].error = "http") =>
                      toast' # TransportFailureReport(inflight[rid].api)]_vars


\* a step of the application that calls handleDeleteEntry(id)
DeleteStep(id) ==
    /\ Next
    /\ nextRid \in DOMAIN inflight' \ DOMAIN inflight
    /\ inflight'[nextRid].api = "deleteEntry"
    /\ inflight'[nextRid].id = id

\* C17: for every active entry whose status is pending or completed, when
\* the list of that status is on screen with no dialog open and no request
\* pending, a step that calls handleDeleteEntry with the entry's id is
\* enabled.
C17_DeleteAllowed ==
    \A e \in Elements(entries) :
        (/\ e.status \in {"pending", "completed"}
         /\ Mounted(e.status)
         /\ ~ModalShown
         /\ Idle
         /\ CanIssue(1))
            => ENABLED DeleteStep(e.id)

\* the same for pending entries alone
C17_PendingDeleteAllowed ==
    \A e \in Elements(entries) :
        (/\ e.status = "pending"
         /\ Mounted(e.status)
         /\ ~ModalShown
         /\ Idle
         /\ CanIssue(1))
            => ENABLED DeleteStep(e.id)


\* the intake rules a draft does not meet, each by the message that
\* reports it
UnmetIntakeRules(f) ==
    {m \in {"Phone number is required", "Delivery address is required",
            "At least one service must be selected",
            "Total amount must be greater than 0",
            "Please upload at least one before photo"} :
        \/ m = "Phone number is required"
           /\ \A i \in 1..Len(f.customerPhone) : f.customerPhone[i] = " "
        \/ m = "Delivery address is required"
           /\ \A i \in 1..Len(f.deliveryAddress) : f.deliveryAddress[i] = " "
        \/ m = "At least one service must be selected"
           /\ {id \in DOMAIN f.selectedServices : f.selectedServices[id]} = {}
        \/ m = "Total amount must be greater than 0"
           /\ ~(f.totalAmount > 0)
        \/ m = "Please upload at least one before photo"
           /\ f.beforePhotos = <<>>}

CreateIssued ==
    /\ DOMAIN inflight' = DOMAIN inflight \cup {nextRid}
    /\ nextRid \notin DOMAIN inflight
    /\ inflight'[nextRid].api = "createEntry"

\* C18: a submit of the New Entry form reports a rule if and only if the
\* draft does not meet it, each unmet rule once and all in the same step;
\* it issues the create request exactly when no rule is unmet, and
\* otherwise issues nothing and keeps the draft.
C18_IntakeRules ==
    [][handleSubmit =>
          LET unmet == UnmetIntakeRules(newEntryState) IN
          IF unmet = {}
          THEN /\ CreateIssued
               /\ Elements(toast') \cap UnmetIntakeRules(NewEntryInitial) = {}
          ELSE /\ Elements(toast') = unmet
               /\ Len(toast') = Cardinality(unmet)
               /\ NothingEmitted
               /\ newEntryState' = newEntryState]_vars

\* Scenario F has been submitted: blank phone, everything else valid
C18_Witness ==
    /\ toast = <<"Phone number is required">>
    /\ newEntryState.customerPhone = <<>>
    /\ newEntryState.deliveryAddress = <<"9">>
    /\ IsSelected(newEntryState.selectedServices, "basic-clean")
    /\ newEntryState.totalAmount = 500
    /\ Len(newEntryState.beforePhotos) = 1


\* the release form does not pass one of the three checks
ReleaseFormUnmet(rd) ==
    \/ rd.afterPhotos = <<>>
    \/ rd.deliveryOption = ""
    \/ /\ rd.deliveryOption = "delivery"
       /\ \A i \in 1..Len(rd.deliveryAddress) : rd.deliveryAddress[i] = " "

\* C19: a step of handleSubmit on a draft with an unmet intake rule, a step
\* of handleRelease on answers the gate refuses and a step of
\* handleFinalSubmit on a release form with an unmet check issue no request
\* and change neither the client's lists nor the store's sets; and no create
\* request in flight carries a draft with an unmet rule.
C19_ValidationIsLocal ==
    /\ [][/\ (handleSubmit /\ UnmetIntakeRules(newEntryState) # {})
                => NothingEmitted
          /\ (handleRelease /\ ~GateTable(tendState[1].serviceDetails))
                => NothingEmitted
          /\ (handleFinalSubmit /\ ReleaseFormUnmet(tendState[1].releaseData))
                => NothingEmitted]_vars
    /\ [](\A rid \in DOMAIN inflight :
            inflight[rid].api = "createEntry" =>
                LET body == inflight[rid].body[1] IN
                /\ \E i \in 1..Len(body.customerPhone) :
                      body.customerPhone[i] # " "
                /\ \E i \in 1..Len(body.deliveryAddress) :
                      body.deliveryAddress[i] # " "
                /\ body.beforePhotos # <<>>)

\* C19 witness: each of the three validations has just failed with nothing
\* in flight and the store as it was: here the intake validation, on a
\* draft that has a phone number but no photo.
C19_Witness ==
    /\ Mounted("new-entry")
    /\ "Please upload at least one before photo" \in Elements(toast)
    /\ newEntryState.customerPhone # <<>>
    /\ inflight = EmptyObject
    /\ backend = BackendInitial


\* the sum of billing + additionalBilling over a list, a missing field
\* counted as 0
RECURSIVE SumOfTotals(_)
SumOfTotals(list) ==
    IF list = <<>> THEN 0
    ELSE (IF Head(list).billing = None THEN 0 ELSE Head(list).billing[1])
         + (IF Head(list).additionalBilling = None THEN 0
            ELSE Head(list).additionalBilling[1])
         + SumOfTotals(Tail(list))

\* C20: the total shown on the card of every entry is billing +
\* additionalBilling with a missing field counted as 0, and the revenue of
\* Analytics and the total revenue of the Report are the sum of that total
\* over the entries.
C20_TotalAmountEverywhere ==
    /\ \A e \in Elements(entries) \cup Elements(deletedEntries) :
          totalAmount(e) = SumOfTotals(<<e>>)
    /\ Analytics_totalRevenue(entries) = SumOfTotals(entries)
    /\ Report_totalRevenue(entries) = SumOfTotals(entries)

\* the same without the Report
C20_CardsAndAnalytics ==
    /\ \A e \in Elements(entries) \cup Elements(deletedEntries) :
          totalAmount(e) = SumOfTotals(<<e>>)
    /\ Analytics_totalRevenue(entries) = SumOfTotals(entries)


\* the copies of entry `id` the client holds in its two lists
ClientCopies(es, ds, id) ==
    {e \in Elements(es) \cup Elements(ds) : e.id = id}

\* the copies of entry `id` the store holds
StoreCopies(b, id) ==
    {b.active[i] : i \in DOMAIN b.active \cap {id}}
        \cup {b.deleted[i] : i \in DOMAIN b.deleted \cap {id}}

\* C21: createdAt of an entry never changes, in the store or in the client's
\* lists; the store gives an entry a later updatedAt on every update,
\* soft delete and restore it accepts; and when the handler of an accepted
\* update or soft delete resumes, the client's copy of the entry has a later
\* updatedAt than the copy it had when the handler started.
C21_Timestamps ==
    [][/\ \A id \in 1..MaxEntries :
            /\ \A e \in StoreCopies(backend, id), f \in StoreCopies(backend', id) :
                  f.createdAt = e.createdAt
            /\ \A e \in ClientCopies(entries, deletedEntries, id),
                  f \in ClientCopies(entries', deletedEntries', id) :
                  f.createdAt = e.createdAt
       /\ \A rid \in DOMAIN inflight :
            LET r == inflight[rid] IN
            /\ (request(rid) /\ inflight'[rid].stage = "resolved"
                /\ r.api \in {"updateEntryApi", "deleteEntry", "restoreEntry"})
                  => \A e \in StoreCopies(backend, r.id),
                        f \in StoreCopies(backend', r.id) :
                        f.updatedAt > e.updatedAt
            /\ (updateEntry_resume(rid) /\ r.stage = "resolved")
                  => \A e \in ClientCopies(entries, deletedEntries, r.id),
                        f \in ClientCopies(entries', deletedEntries', r.id) :
                        f.updatedAt > e.updatedAt
            /\ (handleDeleteEntry_resume(rid) /\ r.stage = "resolved"
                /\ r.snapshot # None)
                  => \A f \in ClientCopies(entries', deletedEntries', r.id) :
                        f.updatedAt > r.snapshot[1].updatedAt]_vars

\* the same without the soft delete's client copy
C21_TimestampsButDelete ==
    [][/\ \A id \in 1..MaxEntries :
            /\ \A e \in StoreCopies(backend, id), f \in StoreCopies(backend', id) :
                  f.createdAt = e.createdAt
            /\ \A e \in ClientCopies(entries, deletedEntries, id),
                  f \in ClientCopies(entries', deletedEntries', id) :
                  f.createdAt = e.createdAt
       /\ \A rid \in DOMAIN inflight :
            LET r == inflight[rid] IN
            /\ (request(rid) /\ inflight'[rid].stage = "resolved"
                /\ r.api \in {"updateEntryApi", "deleteEntry", "restoreEntry"})
                  => \A e \in StoreCopies(backend, r.id),
                        f \in StoreCopies(backend', r.id) :
                        f.updatedAt > e.updatedAt
            /\ (updateEntry_resume(rid) /\ r.stage = "resolved")
                  => \A e \in ClientCopies(entries, deletedEntries, r.id),
                        f \in ClientCopies(entries', deletedEntries', r.id) :
                        f.updatedAt > e.updatedAt]_vars


\* C22: while the session is unauthenticated the client holds no entry:
\* both lists are empty after handleLogout and after a load whose
\* listEntries failed, and stay empty when a request issued earlier settles.
C22_ClearedWhenLoggedOut ==
    ~isAuthenticated => (entries = <<>> /\ deletedEntries = <<>>)

\* the step of handleLogout itself leaves both lists empty
C22_LogoutClears ==
    [][handleLogout => (entries' = <<>> /\ deletedEntries' = <<>>)]_vars


\* the photo list a read appends to
PhotoListOf(target) ==
    CASE target = "before" -> newEntryState.beforePhotos
      [] target = "after" ->
            IF tendState = None THEN <<>>
            ELSE tendState[1].releaseData.afterPhotos
      [] target = "edit" -> EditPhotos(pendingState.editData)

\* the read at position i completes
Completes(i) == onload(i) \/ Pending_onload(i)

\* C23: when a read completes, whichever of the reads in flight it is, its
\* photo is appended to the end of its photo list in that step, the list
\* is otherwise as it was, and the read is in flight no longer; a removal
\* takes exactly the photo at its index out of the list and leaves the
\* reads in flight as they are.
C23_CompletionOrder ==
    [][/\ \A i \in 1..Len(reads) :
            Completes(i) =>
                /\ \A target \in {"before", "after", "edit"} :
                      reads[i].target = target =>
                          PhotoListOf(target)' =
                              Append(PhotoListOf(target), reads[i].photo)
                /\ Len(reads') = Len(reads) - 1
       /\ \A i \in 1..MaxReads :
            (removeBeforePhoto(i) \/ removeEditPhoto(i) \/ removeAfterPhoto(i))
                => Len(reads') = Len(reads)]_vars


\* C24: in the serviceDetails of every released entry, in the client's lists
\* and in the store, and of every release update in flight, basicCleaning
\* has an answer only when isShoeClean is "no".
C24_BasicCleaningOnlyIfNotClean ==
    /\ \A e \in AllEntries :
          (Released(e) /\ e.serviceDetails # None) =>
              (e.serviceDetails[1].basicCleaning # ""
                  => e.serviceDetails[1].isShoeClean = "no")
    /\ \A r \in ReleasesInFlight :
          inflight[r].rest[1].serviceDetails[1].basicCleaning # ""
              => inflight[r].rest[1].serviceDetails[1].isShoeClean = "no"


\* the requests for the deleted list that are in flight
DeletedLoads ==
    {rid \in DOMAIN inflight : inflight[rid].api = "listDeletedEntries"}

\* C25: when loadAllData resumes after a failed listEntries it removes the
\* token, ends the session, reports the failure, asks for no deleted list
\* and leaves isLoading false; after a listEntries that succeeded it takes
\* the list it received as the active list and asks for the deleted list;
\* when it resumes after listDeletedEntries it leaves the session and the
\* active list as they are, takes the list it received as the deleted list,
\* or the empty list if the request failed, and leaves isLoading false.
C25_LoadAllData ==
    [][\A rid \in DOMAIN inflight :
          LET r == inflight[rid] IN
          /\ (loadAllData_listEntries(rid) /\ r.stage = "rejected") =>
                /\ ~authToken' /\ ~isAuthenticated'
                /\ "Failed to load entries" \in Elements(toast')
                /\ DeletedLoads' \subseteq DeletedLoads
                /\ deletedEntries' = deletedEntries
                /\ ~isLoading'
          /\ (loadAllData_listEntries(rid) /\ r.stage = "resolved") =>
                /\ entries' = MapEntries(r.resp[1])
                /\ isAuthenticated' = isAuthenticated
                /\ DeletedLoads' = DeletedLoads \cup {nextRid}
          /\ loadAllData_listDeletedEntries(rid) =>
                /\ isAuthenticated' = isAuthenticated
                /\ authToken' = authToken
                /\ entries' = entries
                /\ deletedEntries' = IF r.stage = "resolved"
                                     THEN MapEntries(r.resp[1]) ELSE <<>>
                /\ ~isLoading']_vars

\* C25 witness: a load whose listEntries failed has just ended the session
C25_Witness ==
    /\ "Failed to load entries" \in Elements(toast)
    /\ ~isAuthenticated
    /\ ~authToken
    /\ DeletedLoads = {}
    /\ ~isLoading

\* a load whose listDeletedEntries failed has emptied a deleted list that
\* held an entry, and the session goes on
C25_DeletedFailed ==
    /\ isAuthenticated
    /\ deletedEntries = <<>>
    /\ backend.deleted # EmptyObject
    /\ DeletedLoads = {}
    /\ entries = <<>>
    /\ ~isLoading


\* C26: on the answer path isShoeClean = 'no', basicCleaning = 'no' the
\* dialog shows the service-type question, so that serviceType can be set
\* and the gate can become true on that path.
C26_ServiceTypeShown ==
    tendState # None =>
        LET t == tendState[1] IN
        (/\ ~t.showReleaseForm
         /\ t.serviceDetails.isShoeClean = "no"
         /\ t.serviceDetails.basicCleaning = "no")
            => FieldShown(t, "serviceType")

\* showBasicCleaning is true whenever isShoeClean = 'no', and so no state
\* of the dialog has a true gate with both answers 'no'
C26_NoPathToGate ==
    tendState # None =>
        LET t == tendState[1] IN
        /\ t.serviceDetails.isShoeClean = "no" => t.showBasicCleaning
        /\ t.serviceDetails.serviceType = ""
        /\ ~(/\ t.serviceDetails.isShoeClean = "no"
             /\ t.serviceDetails.basicCleaning = "no"
             /\ Truthy(checkIfCanRelease(t.serviceDetails)))


\* the ids of a list, in its order
IdsOf(list) == [i \in 1..Len(list) |-> list[i].id]

\* no id occurs twice in the list
UniqueIds(list) ==
    \A i, j \in 1..Len(list) : list[i].id = list[j].id => i = j

\* C27: the active list and the deleted list never share an id, and
\* neither holds an id twice, whatever the order in which the requests in
\* flight settle and their handlers resume.
C27_DisjointSets ==
    /\ UniqueIds(entries)
    /\ UniqueIds(deletedEntries)
    /\ \A e \in Elements(entries), d \in Elements(deletedEntries) :
          e.id # d.id

\* C27, at rest: once every request has settled and every handler has
\* resumed, the active list and the deleted list share no id and neither
\* holds an id twice.
C27_DisjointWhenIdle ==
    Idle => C27_DisjointSets


\* the resume step of the handler that awaits persistence call `rid`
PersistResume(rid) ==
    \/ addEntry_resume(rid)
    \/ updateEntry_resume(rid)
    \/ handleDeleteEntry_resume(rid)
    \/ handleRestoreEntry_resume(rid)
    \/ onPermanentDelete_resume(rid)

\* C28: when a handler resumes after a createEntry, updateEntryApi,
\* deleteEntry, restoreEntry or permanentDeleteEntry that was rejected, it
\* changes neither list, and the lists are then as they were before the
\* handler ran: an entry whose soft delete was rejected is in the active
\* list, as long as the session that asked for the delete goes on.
C28_FailureLeavesLists ==
    [][\A rid \in DOMAIN inflight :
          LET r == inflight[rid] IN
          (PersistResume(rid) /\ r.stage = "rejected") =>
              /\ entries' = entries
              /\ deletedEntries' = deletedEntries
              /\ (r.api = "deleteEntry" /\ r.snapshot # None
                  /\ isAuthenticated) =>
                    r.snapshot[1].id \in Elements(IdsOf(entries'))]_vars

\* the steps of the handlers themselves, after a rejected call: none of them
\* changes a list
C28_CatchChangesNothing ==
    [][\A rid \in DOMAIN inflight :
          (PersistResume(rid) /\ inflight[rid].stage = "rejected") =>
              /\ entries' = entries
              /\ deletedEntries' = deletedEntries]_vars


\* the requests whose fetch has started and has not settled
Unsettled == {rid \in DOMAIN inflight : inflight[rid].stage = "sent"}

\* the counter of api.ts is the number of unsettled requests, each request
\* adds one when it starts and takes one when it settles, resolved or
\* rejected, and the counter is 0 when nothing is in flight
C29_CounterIsExact ==
    /\ []((inFlightRequests = Cardinality(Unsettled))
          /\ inFlightRequests >= 0
          /\ (Idle => inFlightRequests = 0))
    /\ [][\A rid \in DOMAIN inflight :
             request(rid) =>
                /\ inflight'[rid].stage \in {"resolved", "rejected"}
                /\ inFlightRequests' = inFlightRequests - 1]_vars
    /\ [][nextRid' # nextRid =>
             /\ nextRid' = nextRid + 1
             /\ inFlightRequests' = inFlightRequests + 1]_vars

\* C29: the in-flight counter is the number of requests that have started
\* and not settled, never negative and 0 when all have settled, and between
\* the steps of the handlers App's isLoading is true exactly when the
\* counter is greater than 0, also when loadAllData overlaps another
\* request.
C29_LoadingTracksCounter ==
    /\ inFlightRequests = Cardinality(Unsettled)
    /\ inFlightRequests >= 0
    /\ (Idle => inFlightRequests = 0)
    /\ isLoading = (inFlightRequests > 0)


\* C30: once a draft has been submitted the form's beforePhotos is empty
\* and stays empty as long as the user selects no file again, also when a
\* read that was started before the submit completes after it.
C30_NextDraftHasNoPhotos ==
    Submitted => newEntryState.beforePhotos = <<>>

\* the entry handed to onAddEntry holds the photos whose reads had completed
\* when the form was submitted, and the submit leaves an empty list
C30_SubmittedPhotos ==
    [][(handleSubmit /\ nextRid' # nextRid) =>
          /\ inflight'[nextRid].body[1].beforePhotos
                = newEntryState.beforePhotos
          /\ newEntryState'.beforePhotos = <<>>]_vars

====
